---- MODULE Spec2Model ----
(***************************************************************************)
(* Model of the fixed-step scheduler (src/src/app/core/fixedStep.ts), of   *)
(* the kinematic physics world and its spatial hash                        *)
(* (src/src/app/physics/physics.ts), of the input mapper                   *)
(* (src/src/app/input/input.ts), of the simulation tick of the scene      *)
(* (src/src/app/scenes/DemoScene.ts), of the ECS World                     *)
(* (src/src/app/core/ecs.ts) and of the EntityRegistry                     *)
(* (src/unnamed/part_007).                                                 *)
(*                                                                         *)
(* Time is counted in whole units, TimeUnitsPerSecond units to the second, *)
(* so every quantity of the scheduler is an exact integer.  hz is drawn    *)
(* from values whose period is a whole number of units.                    *)
(***************************************************************************)
EXTENDS Integers, Sequences, FiniteSets, TLC

\* ------------------------------------------------------------------ bounds
TimeUnitsPerSecond == 4
MaxNow == 7

\* the step counters of the history count up to MaxSteps
MaxSteps == 9

\* An optional number of the options object: absent, or given with a value.
NoOpt == [given |-> FALSE, value |-> 0]
Given(v) == [given |-> TRUE, value |-> v]

HzValues == {0, 2, 4}

\* Number.POSITIVE_INFINITY, larger than every other number of the model; its
\* reciprocal is 0, as is TimeUnitsPerSecond \div Infinity
Infinity == 2^30
HzEdgeValues == {-1, Infinity}
MaxAccOptions == {NoOpt, Given(3), Given(5)}

Min(a, b) == IF a <= b THEN a ELSE b
Max(a, b) == IF a >= b THEN a ELSE b

\* ----------------------------------------------------------------- numbers
\* The coordinates of the physics world are numbers of the language, IEEE 754
\* doubles: an arithmetic operation gives the exact result rounded to the
\* nearest representable value, a tie going to the even significand.  The
\* model keeps whole numbers with SignificandBits bits of significand (a double
\* keeps 53), so that every whole number below 2^SignificandBits in size is
\* exact and larger ones are multiples of 2, 4, ...
SignificandBits == 10

ExactLimit == 2^SignificandBits

Abs(v) == IF v < 0 THEN 0 - v ELSE v

\* the spacing of the representable values around a number of size m
RECURSIVE UlpOf(_, _)
UlpOf(m, u) == IF m < ExactLimit * u THEN u ELSE UlpOf(m, 2 * u)

\* the representable value nearest to v, ties to even
Fl(v) ==
  IF Abs(v) < ExactLimit THEN v
  ELSE LET m == Abs(v)
           u == UlpOf(m, 1)
           q == m \div u
           r == m % u
           n == (IF 2 * r > u \/ (2 * r = u /\ q % 2 = 1) THEN q + 1 ELSE q) * u
       IN IF v < 0 THEN 0 - n ELSE n

\* a + b, a - b, a * b of the language
FAdd(a, b) == Fl(a + b)
FSub(a, b) == Fl(a - b)
FMul(a, b) == Fl(a * b)

\* ------------------------------------------------------------- scheduler
VARIABLES
  hz,                \* options.hz as given by the caller
  fixedDt,           \* const fixedDt
  maxAccumulated,    \* const maxAccumulated
  accumulator,
  lastTime,
  paused,
  stepsLastFrame,
  now,               \* performance.now() / 1000, in time units
  registered,        \* update is a listener of the ticker
  pc,                \* "idle" | "loop" (inside update) | "inStep" (inside stepFn)
  stepArg,           \* argument of the stepFn call in progress
  \* history of the run, read only by the properties
  lastRun,           \* end of the last non-paused invocation: none | ran | threw
  lastPaused,        \* the last invocation took the paused branch
  run,               \* "exact": every invocation so far was non-paused, unclamped
                     \* and completed; "clamped": the same but for a clamp;
                     \* "void": anything else
  totalElapsed,      \* sum of now - lastTime over the invocations (0 when void)
  totalSteps,        \* number of stepFn calls so far (0 when void)
  frameAcc0,         \* accumulator at the start of the last non-paused invocation
  frameClamped,      \* that invocation's elapsed time exceeded maxAccumulated
  callsThisFrame,    \* stepFn calls made by the last invocation
  detachCalls,       \* number of detach() calls (up to 2)
  pause6             \* record of the last pause()/resume() pair

\* --------------------------------------------------------- physics world
VARIABLES
  cellSize,          \* const cellSize
  gravityX, gravityY,
  nextId,
  dynamicBodies,     \* Map<number, DynamicBody>, in insertion order
  staticBodies,      \* Map<number, StaticBody>, in insertion order
  cells,             \* SpatialHash.cells: key -> bucket, in insertion order
  \* history of the run, read only by the properties
  created,           \* number of bodies created so far
  lastOp,            \* the last operation on the world, with step's dt
  pre,               \* dynamicBodies as it was before the last step
  removed            \* ids passed to removeDynamicBody that named a live body

\* resolveAxis in small steps
VARIABLES
  res                \* position inside step: pc, axis, dx, dy and the locals
                     \* statics, i (index of the for loop) and collided

\* ------------------------------------------- a spatial hash on its own
VARIABLES
  hashItems,         \* the items added and not removed since
  lastHashOp         \* the last operation on the hash, its argument and result

\* ---------------------------------------------------------- input mapper
VARIABLES
  held, pressed, released,   \* the three Set<Action> of the mapper
  listening,         \* handleKeyDown / handleKeyUp are listeners of the target
  keysDown,          \* the codes that are physically down
  snapshot,          \* what the last poll() returned
  prevSnapshot,      \* what the poll() before it returned
  polls,             \* number of poll() calls so far (up to 2)
  touchedSincePoll,  \* a raw key event or dispose() came after the last poll()
  touchedBetweenPolls  \* one came between the last two poll() calls

\* ------------------------------------------- the scene's simulation tick
VARIABLES
  sceneReady,        \* playerEntity, input and physicsWorld are set
  deltaMS,           \* app.ticker.deltaMS of the render frame in progress
  tickRemainder,     \* the scheduler's accumulator, in 1/SceneHz ms
  ticksLeft,         \* simulation ticks the scheduler still runs this frame
  hudUpdateAccumulator,
  \* history of the run, read only by the properties
  stages,            \* what the last handleSimulationStep did, in order
  tickerMsSincePublish,  \* sum of deltaMS of the render frames since the
                     \* last updateHud() (up to HudPeriodMs)
  lastGapMs,         \* that sum at the last throttled updateHud(), -1 if none
  publishedInRow     \* consecutive simulation ticks that ended with updateHud()
                     \* (up to 2)

\* ------------------------- a second physics world with the same statics
VARIABLES
  twin               \* its dynamicBodies; it has the static bodies, the
                     \* spatial hash and the options of the first world

\* ----------------------------------------------------- the ECS World
VARIABLES
  nextEntity,
  alive,             \* Set<Entity>
  stores,            \* Map<symbol, ComponentStore>: descriptor -> the entries
                     \* [entity, value] of its Map, in insertion order
  \* history of the run, read only by the properties
  issued,            \* the ids createEntity has returned so far
  ecsLast            \* the last operation, its arguments and its outcome

\* -------------------------------------------------- the EntityRegistry
VARIABLES
  regNextId,         \* nextId of the registry
  byId,              \* Map<number, EntityRecord>: id -> record
  byKind,            \* Map<EntityKind, Set<number>>
  regLast            \* the last operation, its arguments and its outcome

physVars == << cellSize, gravityX, gravityY, nextId, dynamicBodies,
               staticBodies, cells, created, lastOp, pre, removed >>
resVars == << res >>
hashVars == << hashItems, lastHashOp >>
inputVars == << held, pressed, released, listening, keysDown, snapshot,
                prevSnapshot, polls, touchedSincePoll, touchedBetweenPolls >>

schedVars == << hz, fixedDt, maxAccumulated, accumulator, lastTime, paused,
                stepsLastFrame, now, registered, pc, stepArg >>
histVars == << lastRun, lastPaused, run, totalElapsed, totalSteps, frameAcc0,
               frameClamped, callsThisFrame, detachCalls, pause6 >>
sceneVars == << sceneReady, deltaMS, tickRemainder, ticksLeft,
               hudUpdateAccumulator, stages, tickerMsSincePublish, lastGapMs,
               publishedInRow >>
twinVars == << twin >>
ecsVars == << nextEntity, alive, stores, issued, ecsLast >>
regVars == << regNextId, byId, byKind, regLast >>
vars == << schedVars, histVars, physVars, resVars, hashVars, inputVars,
           sceneVars, twinVars, ecsVars, regVars >>

\* what the operations of the scheduler / of the world leave alone
outsideSched == << physVars, resVars, hashVars, inputVars, sceneVars,
  twinVars, ecsVars, regVars >>
outsidePhys == << schedVars, histVars, resVars, hashVars, inputVars, sceneVars,
  twinVars, ecsVars, regVars >>
outsideRes == << schedVars, histVars, hashVars, inputVars, sceneVars,
  twinVars, ecsVars, regVars >>
outsideHash == << schedVars, histVars, resVars, inputVars, sceneVars,
  twinVars, ecsVars, regVars >>
outsideInput == << schedVars, histVars, physVars, resVars, hashVars, sceneVars,
  twinVars, ecsVars, regVars >>
outsideScene == << schedVars, histVars, physVars, resVars, hashVars, inputVars,
  twinVars, ecsVars, regVars >>

\* const fixedHz = Math.max(1, options.hz ?? 60)
FixedHz(h) == Max(1, h)

\* const fixedDt = 1 / fixedHz
FixedDtOf(h) == TimeUnitsPerSecond \div FixedHz(h)

\* options.maxAccumulatedTime ?? 0.25
DefaultMaxAccumulated == TimeUnitsPerSecond \div 4
MaxAccumulatedOf(opt) == IF opt.given THEN opt.value ELSE DefaultMaxAccumulated

\* Math.min(maxAccumulated, now - lastTime)
FrameElapsedUnclamped(lim, elapsed) == elapsed
FrameElapsed(lim, elapsed) == Min(lim, elapsed)

\* while (accumulator >= fixedDt)
LoopCondStrict(acc, dt) == acc > dt
LoopCond(acc, dt) == acc >= dt

\* stepFn(fixedDt)
StepFnArgVariable(dt, acc) == acc
StepFnArg(dt, acc) == dt

\* accumulator -= fixedDt
AccAfterStepReset(acc, dt) == 0
AccAfterStep(acc, dt) == acc - dt

\* resume(): lastTime = performance.now() / 1000
ResumeLastTimeKept(nw, lt) == lt
ResumeLastTime(nw, lt) == nw

\* Nothing is recorded about a pause()/resume() pair.
NoPause6 == [phase |-> "off", acc |-> 0, pauseLen |-> 0, resumeAt |-> 0,
             sinceResume |-> 0, pausedInvs |-> 0]

\* The controller has come to rest paused with accumulator acc.
Pause6At(acc) == [NoPause6 EXCEPT !.phase = "paused", !.acc = acc]

\* startFixedStep(ticker, stepFn, options) (lines 24-38, 64) with options.hz
\* from hzs and options.maxAccumulatedTime from accs
StartFixedStep(hzs, accs) ==
  /\ hz \in hzs
  /\ fixedDt = FixedDtOf(hz)
  /\ \E opt \in accs : maxAccumulated = MaxAccumulatedOf(opt)
  /\ accumulator = 0
  /\ now = 0
  /\ lastTime = now
  /\ paused = FALSE
  /\ stepsLastFrame = 0
  /\ registered = TRUE
  /\ pc = "idle"
  /\ stepArg = 0
  /\ lastRun = "none"
  /\ lastPaused = FALSE
  /\ run = "exact"
  /\ totalElapsed = 0
  /\ totalSteps = 0
  /\ frameAcc0 = 0
  /\ frameClamped = FALSE
  /\ callsThisFrame = 0
  /\ detachCalls = 0
  /\ pause6 = NoPause6

SchedInit == StartFixedStep(HzValues, MaxAccOptions)

\* The clock advances by one unit between invocations of the ticker.
Tick ==
  /\ pc = "idle"
  /\ now < MaxNow
  /\ now' = now + 1
  /\ pause6' = IF pause6.phase = "paused"
               THEN [pause6 EXCEPT !.pauseLen = @ + 1]
               ELSE pause6
  /\ UNCHANGED << hz, fixedDt, maxAccumulated, accumulator, lastTime, paused,
                  stepsLastFrame, registered, pc, stepArg >>
  /\ UNCHANGED << lastRun, lastPaused, run, totalElapsed, totalSteps, frameAcc0,
                  frameClamped, callsThisFrame, detachCalls >>
  /\ UNCHANGED outsideSched

\* update(), paused branch (lines 41-45)
UpdatePaused ==
  /\ registered
  /\ pc = "idle"
  /\ paused
  /\ lastTime' = now
  /\ stepsLastFrame' = 0
  /\ lastPaused' = TRUE
  /\ run' = "void"
  /\ totalElapsed' = 0
  /\ totalSteps' = 0
  /\ callsThisFrame' = 0
  /\ frameClamped' = FALSE
  /\ frameAcc0' = 0
  /\ pause6' = IF pause6.phase = "paused"
               THEN [pause6 EXCEPT !.pausedInvs = Min(2, @ + 1)]
               ELSE pause6
  /\ UNCHANGED << hz, fixedDt, maxAccumulated, accumulator, paused, now,
                  registered, pc, stepArg >>
  /\ UNCHANGED << lastRun, detachCalls >>
  /\ UNCHANGED outsideSched

\* update(), lines 47-52: sample the clock, clamp, accumulate
UpdateBegin ==
  /\ registered
  /\ pc = "idle"
  /\ ~paused
  /\ accumulator' = accumulator + FrameElapsed(maxAccumulated, now - lastTime)
  /\ lastTime' = now
  /\ stepsLastFrame' = 0
  /\ pc' = "loop"
  /\ lastRun' = "none"
  /\ lastPaused' = FALSE
  /\ frameAcc0' = accumulator
  /\ frameClamped' = (now - lastTime > maxAccumulated)
  /\ run' = IF run = "void" THEN "void"
            ELSE IF now - lastTime > maxAccumulated THEN "clamped"
            ELSE run
  /\ totalElapsed' = IF run = "void" THEN 0 ELSE totalElapsed + (now - lastTime)
  /\ callsThisFrame' = 0
  /\ pause6' = IF pause6.phase = "armed"
               THEN [pause6 EXCEPT !.phase = "first",
                                   !.sinceResume = now - pause6.resumeAt,
                                   !.resumeAt = 0]
               ELSE NoPause6
  /\ UNCHANGED << hz, fixedDt, maxAccumulated, paused, now, registered, stepArg >>
  /\ UNCHANGED << totalSteps, detachCalls >>
  /\ UNCHANGED outsideSched

\* update(), lines 54-56: the loop test holds and stepFn is entered
CallStepFn ==
  /\ pc = "loop"
  /\ LoopCond(accumulator, fixedDt)
  /\ pc' = "inStep"
  /\ stepArg' = StepFnArg(fixedDt, accumulator)
  /\ totalSteps' = IF run = "void" THEN 0 ELSE Min(MaxSteps, totalSteps + 1)
  /\ callsThisFrame' = Min(MaxSteps, callsThisFrame + 1)
  /\ UNCHANGED << hz, fixedDt, maxAccumulated, accumulator, lastTime, paused,
                  stepsLastFrame, now, registered >>
  /\ UNCHANGED << lastRun, lastPaused, run, totalElapsed, frameAcc0,
                  frameClamped, detachCalls, pause6 >>
  /\ UNCHANGED outsideSched

\* update(), lines 57-60: stepFn returned
StepFnReturn ==
  /\ pc = "inStep"
  /\ accumulator' = AccAfterStep(accumulator, fixedDt)
  /\ stepsLastFrame' = Min(MaxSteps, stepsLastFrame + 1)
  /\ pc' = "loop"
  /\ stepArg' = 0
  /\ UNCHANGED << hz, fixedDt, maxAccumulated, lastTime, paused, now, registered >>
  /\ UNCHANGED << lastRun, lastPaused, run, totalElapsed, totalSteps, frameAcc0,
                  frameClamped, callsThisFrame, detachCalls, pause6 >>
  /\ UNCHANGED outsideSched

\* a loop that catches what stepFn throws and goes on, counting the step
StepFnThrowCaught ==
  /\ pc = "inStep"
  /\ pc' = "loop"
  /\ stepArg' = 0
  /\ accumulator' = AccAfterStep(accumulator, fixedDt)
  /\ stepsLastFrame' = Min(MaxSteps, stepsLastFrame + 1)
  /\ lastRun' = "threw"
  /\ run' = "void"
  /\ totalElapsed' = 0
  /\ totalSteps' = 0
  /\ UNCHANGED << hz, fixedDt, maxAccumulated, lastTime, paused, now,
                  registered >>
  /\ UNCHANGED << lastPaused, frameAcc0, frameClamped, callsThisFrame,
                  detachCalls, pause6 >>
  /\ UNCHANGED outsideSched

\* stepFn threw: nothing catches it, update is left at line 56
StepFnThrow ==
  /\ pc = "inStep"
  /\ pc' = "idle"
  /\ stepArg' = 0
  /\ lastRun' = "threw"
  /\ run' = "void"
  /\ totalElapsed' = 0
  /\ totalSteps' = 0
  /\ pause6' = IF paused THEN Pause6At(accumulator) ELSE pause6
  /\ UNCHANGED << hz, fixedDt, maxAccumulated, accumulator, lastTime, paused,
                  stepsLastFrame, now, registered >>
  /\ UNCHANGED << lastPaused, frameAcc0, frameClamped, callsThisFrame,
                  detachCalls >>
  /\ UNCHANGED outsideSched

\* update(), line 54 fails: the loop is left and update returns
UpdateReturn ==
  /\ pc = "loop"
  /\ ~LoopCond(accumulator, fixedDt)
  /\ pc' = "idle"
  /\ lastRun' = "ran"
  /\ pause6' = IF paused THEN Pause6At(accumulator) ELSE pause6
  /\ UNCHANGED << hz, fixedDt, maxAccumulated, accumulator, lastTime, paused,
                  stepsLastFrame, now, registered, stepArg >>
  /\ UNCHANGED << lastPaused, run, totalElapsed, totalSteps, frameAcc0,
                  frameClamped, callsThisFrame, detachCalls >>
  /\ UNCHANGED outsideSched

\* The controller's methods are called between invocations of the ticker or
\* from inside stepFn (the program is single-threaded).
CallerRuns == pc \in {"idle", "inStep"}

\* pause() (lines 67-69)
Pause ==
  /\ CallerRuns
  /\ paused' = TRUE
  /\ pause6' = IF paused THEN pause6
               ELSE IF pc = "idle" THEN Pause6At(accumulator)
               ELSE NoPause6
  /\ UNCHANGED << hz, fixedDt, maxAccumulated, accumulator, lastTime,
                  stepsLastFrame, now, registered, pc, stepArg >>
  /\ UNCHANGED << lastRun, lastPaused, run, totalElapsed, totalSteps, frameAcc0,
                  frameClamped, callsThisFrame, detachCalls >>
  /\ UNCHANGED outsideSched

\* resume() (lines 70-76)
Resume ==
  /\ CallerRuns
  /\ IF ~paused
     THEN UNCHANGED << paused, lastTime, pause6 >>
     ELSE /\ paused' = FALSE
          /\ lastTime' = ResumeLastTime(now, lastTime)
          /\ pause6' = IF pc = "idle" /\ pause6.phase = "paused"
                       THEN [pause6 EXCEPT !.phase = "armed", !.resumeAt = now]
                       ELSE NoPause6
  /\ UNCHANGED << hz, fixedDt, maxAccumulated, accumulator, stepsLastFrame,
                  now, registered, pc, stepArg >>
  /\ UNCHANGED << lastRun, lastPaused, run, totalElapsed, totalSteps, frameAcc0,
                  frameClamped, callsThisFrame, detachCalls >>
  /\ UNCHANGED outsideSched

\* detach() (lines 77-79): ticker.remove(update)
Detach ==
  /\ CallerRuns
  /\ registered' = FALSE
  /\ detachCalls' = Min(2, detachCalls + 1)
  /\ UNCHANGED << hz, fixedDt, maxAccumulated, accumulator, lastTime, paused,
                  stepsLastFrame, now, pc, stepArg >>
  /\ UNCHANGED << lastRun, lastPaused, run, totalElapsed, totalSteps, frameAcc0,
                  frameClamped, callsThisFrame, pause6 >>
  /\ UNCHANGED outsideSched

\* ------------------------------------------------- physics world, model

\* opt ?? d
OrElse(opt, d) == IF opt.given THEN opt.value ELSE d

\* createPhysicsWorld(options): the options the worlds are built with
DefaultCellSize == 256
NoGravity == [x |-> NoOpt, y |-> NoOpt]
WorldOptions == {[cellSize |-> NoOpt, gravity |-> NoGravity],
                 [cellSize |-> Given(10), gravity |-> [x |-> NoOpt, y |-> Given(10)]]}

\* addStaticBody(init): the rectangles level geometry is drawn from, each used
\* once in a level
Rect(x, y, w, h) == [x |-> x, y |-> y, width |-> w, height |-> h]
StaticInits == {Rect(15, 0, 10, 10), Rect(25, 0, 10, 10), Rect(0, 10, 10, 10),
                Rect(0, -15, 10, 10)}

\* addDynamicBody(init): the bodies that are added
DynInit(x, y, w, h, vx, vy) ==
  [x |-> x, y |-> y, width |-> w, height |-> h, vx |-> vx, vy |-> vy,
   ax |-> NoOpt, ay |-> NoOpt, gravityScale |-> NoOpt]
DynamicInits == {DynInit(0, 0, 10, 10, Given(100), Given(0)),
                 DynInit(0, 0, 10, 10, NoOpt, NoOpt)}

\* velocities the scene writes into a body between steps
VxValues == {-10, 0, 20}
VyValues == {-10, 0, 10}
StepDts == {0, 1}

\* bodies are stepped while they are inside this window; at most MaxCreated
\* bodies are created in one run
MaxCoord == 5
MaxCreated == 3

\* the last operation was not a step
NoStep == [op |-> "other", dt |-> 0]

\* the last operation was entered and never returns
Hung == [op |-> "hang", dt |-> 0]

\* every call made on the world so far has returned
Returned == lastOp # Hung

\* aabbOverlap(a, b) (lines 50-52)
AabbOverlap(a, b) ==
  ~(FAdd(a.x, a.width) <= b.x \/ FAdd(b.x, b.width) <= a.x
      \/ FAdd(a.y, a.height) <= b.y \/ FAdd(b.y, b.height) <= a.y)

\* Math.floor(a / b) for b # 0.  The quotient of two whole numbers of the
\* model does not round across a whole number, so this is the floor of the
\* exact quotient.
FloorDiv(a, b) == IF b > 0 THEN a \div b ELSE (0 - a) \div (0 - b)

\* keysFor(bounds) with cellSize 0 never returns: the quotients are
\* +-Infinity, or NaN for 0 / 0, and once the outer loop (line 104) is entered
\* with an infinite x, x += 1 leaves x as it is and x <= maxX stays true.  The
\* loop is not entered when minX or maxX is NaN.
KeysForHangs(bounds, cs) ==
  cs = 0 /\ bounds.x # 0 /\ FAdd(bounds.x, bounds.width) # 0

\* SpatialHash.keysFor(bounds) (lines 97-111) when it returns: the keys, x
\* outermost; none when a loop bound is NaN or the upper bound of a loop is
\* below the lower one
KeysFor(bounds, cs) ==
  IF cs = 0 THEN << >>
  ELSE
  LET minX == FloorDiv(bounds.x, cs)
      maxX == FloorDiv(FAdd(bounds.x, bounds.width), cs)
      minY == FloorDiv(bounds.y, cs)
      maxY == FloorDiv(FAdd(bounds.y, bounds.height), cs)
      ny == Max(0, maxY - minY + 1)
      n == Max(0, maxX - minX + 1) * ny
  IN [i \in 1..n |-> << minX + ((i - 1) \div ny), minY + ((i - 1) % ny) >>]

SeqRange(q) == {q[i] : i \in 1..Len(q)}

\* Set.add(item): appended unless already a member
SetAdd(bucket, item) ==
  IF item \in SeqRange(bucket) THEN bucket ELSE Append(bucket, item)

\* SpatialHash.add(item) (lines 59-68)
HashAdd(c, item, cs) ==
  LET ks == SeqRange(KeysFor(item, cs))
  IN [k \in (DOMAIN c) \cup ks |->
        IF k \in ks
        THEN (IF k \in DOMAIN c THEN SetAdd(c[k], item) ELSE << item >>)
        ELSE c[k]]

RECURSIVE AddAll(_, _, _)
AddAll(results, bucket, i) ==
  IF i > Len(bucket) THEN results
  ELSE AddAll(SetAdd(results, bucket[i]), bucket, i + 1)

RECURSIVE QueryFrom(_, _, _, _)
QueryFrom(c, ks, i, results) ==
  IF i > Len(ks) THEN results
  ELSE IF ks[i] \notin DOMAIN c THEN QueryFrom(c, ks, i + 1, results)
  ELSE QueryFrom(c, ks, i + 1, AddAll(results, c[ks[i]], 1))

\* a query that looks into the first cell of the area only
QueryFirstCell(c, area, cs) ==
  QueryFrom(c, SubSeq(KeysFor(area, cs), 1, 1), 1, << >>)

\* SpatialHash.query(area) (lines 83-95), in the order Array.from gives
Query(c, area, cs) == QueryFrom(c, KeysFor(area, cs), 1, << >>)

\* queryStatics(body) (lines 167-170)
QueryStatics(body) == Query(cells, body, cellSize)

\* resolveAxis, lines 177-181: the body is moved by delta along the axis
Moved(body, delta, axis) ==
  IF axis = "x" THEN [body EXCEPT !.x = FAdd(@, delta)]
  ELSE [body EXCEPT !.y = FAdd(@, delta)]

\* a push-out that never records a landing
PushOutNoGround(body, solid, delta, axis) ==
  IF axis = "x"
  THEN [body EXCEPT !.x = IF delta > 0 THEN FSub(solid.x, body.width)
                          ELSE FAdd(solid.x, solid.width),
                    !.vx = 0]
  ELSE [body EXCEPT !.y = IF delta > 0 THEN FSub(solid.y, body.height)
                          ELSE FAdd(solid.y, solid.height),
                    !.vy = 0]

\* resolveAxis, lines 192-210: the body is pushed out of solid
PushOut(body, solid, delta, axis) ==
  IF axis = "x"
  THEN [body EXCEPT !.x = IF delta > 0 THEN FSub(solid.x, body.width)
                          ELSE FAdd(solid.x, solid.width),
                    !.vx = 0]
  ELSE IF delta > 0
  THEN [body EXCEPT !.y = FSub(solid.y, body.height), !.vy = 0,
                    !.onGround = TRUE]
  ELSE [body EXCEPT !.y = FAdd(solid.y, solid.height), !.vy = 0]

\* resolveAxis, lines 187-211: one pass of the for loop over the candidates
RECURSIVE ResolvePass(_, _, _, _, _, _)
ResolvePass(body, statics, i, delta, axis, collided) ==
  IF i > Len(statics) THEN [body |-> body, collided |-> collided]
  ELSE IF ~AabbOverlap(body, statics[i])
  THEN ResolvePass(body, statics, i + 1, delta, axis, collided)
  ELSE ResolvePass(PushOut(body, statics[i], delta, axis), statics, i + 1,
                   delta, axis, TRUE)

\* a resolution that pushes the body out of the first overlapping candidate only
ResolveLoopFirstOnly(body, delta, axis) ==
  LET statics == QueryStatics(body)
      hits == {i \in 1..Len(statics) : AabbOverlap(body, statics[i])}
  IN IF hits = {} THEN body
     ELSE PushOut(body, statics[CHOOSE i \in hits : \A j \in hits : i <= j],
                  delta, axis)

\* resolveAxis, lines 183-212: do { ... } while (collided)
RECURSIVE ResolveLoop(_, _, _)
ResolveLoop(body, delta, axis) ==
  LET r == ResolvePass(body, QueryStatics(body), 1, delta, axis, FALSE)
  IN IF r.collided THEN ResolveLoop(r.body, delta, axis) ELSE r.body

\* the box swept by the body while it moves by delta along the axis
SweptBox(body, delta, axis) ==
  LET len == IF delta > 0 THEN delta ELSE 0 - delta
  IN IF axis = "x"
     THEN [body EXCEPT !.x = Min(@, @ + delta), !.width = @ + len]
     ELSE [body EXCEPT !.y = Min(@, @ + delta), !.height = @ + len]

\* a resolution against the swept box: the body stops at the nearest static
\* on its way
ResolveAxisSwept(body, delta, axis) ==
  LET sw == SweptBox(body, delta, axis)
      cand == QueryStatics(sw)
      hits == {i \in 1..Len(cand) : AabbOverlap(sw, cand[i])}
      Near(s) == IF axis = "x" THEN s.x ELSE s.y
      Nearer(s, t) == IF delta > 0 THEN Near(s) <= Near(t) ELSE Near(s) >= Near(t)
  IN IF delta = 0 THEN body
     ELSE IF hits = {} THEN Moved(body, delta, axis)
     ELSE PushOut(body,
                  cand[CHOOSE i \in hits : \A j \in hits : Nearer(cand[i], cand[j])],
                  delta, axis)

\* resolveAxis(body, delta, axis) (lines 172-213)
ResolveAxis(body, delta, axis) ==
  IF delta = 0 THEN body
  ELSE ResolveLoop(Moved(body, delta, axis), delta, axis)

\* step, lines 221-222: forces are applied to the velocity
Integrated(body, dt) ==
  [body EXCEPT !.vx = FAdd(@, FMul(FAdd(body.ax, gravityX), dt)),
               !.vy = FAdd(@, FMul(FAdd(body.ay, FMul(gravityY, body.gravityScale)),
                                   dt))]

\* a step that keeps the onGround of the step before
StepBodyKeepGround(body, dt) ==
  LET b1 == Integrated(body, dt)
      dx == FMul(b1.vx, dt)
      dy == FMul(b1.vy, dt)
      b2 == IF dx # 0 THEN ResolveAxis(b1, dx, "x") ELSE b1
  IN IF dy # 0 THEN ResolveAxis(b2, dy, "y") ELSE b2

\* a step that resolves the X displacement and applies the Y displacement
\* without a resolution
StepBodyXOnly(body, dt) ==
  LET b1 == Integrated(body, dt)
      dx == FMul(b1.vx, dt)
      dy == FMul(b1.vy, dt)
      b2 == IF dx # 0 THEN ResolveAxis(b1, dx, "x") ELSE b1
      b3 == [b2 EXCEPT !.onGround = FALSE]
  IN Moved(b3, dy, "y")

\* a step that resolves y before x
StepBodyYFirst(body, dt) ==
  LET b1 == Integrated(body, dt)
      dx == FMul(b1.vx, dt)
      dy == FMul(b1.vy, dt)
      b2 == [b1 EXCEPT !.onGround = FALSE]
      b3 == IF dy # 0 THEN ResolveAxis(b2, dy, "y") ELSE b2
  IN IF dx # 0 THEN ResolveAxis(b3, dx, "x") ELSE b3

\* step, lines 221-235: one body is stepped
StepBody(body, dt) ==
  LET b1 == Integrated(body, dt)
      dx == FMul(b1.vx, dt)
      dy == FMul(b1.vy, dt)
      b2 == IF dx # 0 THEN ResolveAxis(b1, dx, "x") ELSE b1
      b3 == [b2 EXCEPT !.onGround = FALSE]
  IN IF dy # 0 THEN ResolveAxis(b3, dy, "y") ELSE b3

\* createPhysicsWorld (lines 114-122)
CreatePhysicsWorld(optionSet) ==
  /\ \E options \in optionSet :
       /\ cellSize = OrElse(options.cellSize, DefaultCellSize)
       /\ gravityX = OrElse(options.gravity.x, 0)
       /\ gravityY = OrElse(options.gravity.y, 0)
  /\ nextId = 1
  /\ dynamicBodies = << >>
  /\ staticBodies = << >>
  /\ cells = << >>
  /\ created = 0
  /\ lastOp = NoStep
  /\ pre = << >>
  /\ removed = {}

PhysInit == CreatePhysicsWorld(WorldOptions)

\* the world of the scene, createPhysicsWorld({ cellSize: 256 }), left alone
PhysIdle ==
  /\ cellSize = DefaultCellSize
  /\ gravityX = 0
  /\ gravityY = 0
  /\ nextId = 1
  /\ dynamicBodies = << >>
  /\ staticBodies = << >>
  /\ cells = << >>
  /\ created = 0
  /\ lastOp = NoStep
  /\ pre = << >>
  /\ removed = {}

\* addStaticBody(init) (lines 124-136)
AddStaticBody(init) ==
  /\ res.pc = "idle"
  /\ Returned
  /\ created < MaxCreated
  /\ \A s \in SeqRange(staticBodies) : Rect(s.x, s.y, s.width, s.height) # init
  /\ created' = created + 1
  /\ LET body == [id |-> nextId, x |-> init.x, y |-> init.y,
                  width |-> init.width, height |-> init.height]
     IN /\ staticBodies' = Append(staticBodies, body)
        /\ cells' = IF KeysForHangs(body, cellSize) THEN cells
                    ELSE HashAdd(cells, body, cellSize)
        /\ lastOp' = IF KeysForHangs(body, cellSize) THEN Hung ELSE NoStep
  /\ nextId' = nextId + 1
  /\ pre' = << >>
  /\ UNCHANGED << cellSize, gravityX, gravityY, dynamicBodies, removed >>
  /\ UNCHANGED outsidePhys

\* addDynamicBody(init) (lines 138-155)
AddDynamicBody(init) ==
  /\ res.pc = "idle"
  /\ Returned
  /\ created < MaxCreated
  /\ dynamicBodies = << >>
  /\ created' = created + 1
  /\ LET body == [id |-> nextId, x |-> init.x, y |-> init.y,
                  width |-> init.width, height |-> init.height,
                  vx |-> OrElse(init.vx, 0), vy |-> OrElse(init.vy, 0),
                  ax |-> OrElse(init.ax, 0), ay |-> OrElse(init.ay, 0),
                  gravityScale |-> OrElse(init.gravityScale, 1),
                  onGround |-> FALSE]
     IN dynamicBodies' = Append(dynamicBodies, body)
  /\ nextId' = nextId + 1
  /\ lastOp' = NoStep
  /\ pre' = << >>
  /\ UNCHANGED << cellSize, gravityX, gravityY, staticBodies, cells, removed >>
  /\ UNCHANGED outsidePhys

\* removeDynamicBody(id) (lines 157-159)
RemoveDynamicBody(id) ==
  /\ Returned
  /\ dynamicBodies' = SelectSeq(dynamicBodies, LAMBDA b : b.id # id)
  /\ removed' = IF \E i \in 1..Len(dynamicBodies) : dynamicBodies[i].id = id
                THEN removed \cup {id} ELSE removed
  /\ lastOp' = NoStep
  /\ pre' = << >>
  /\ UNCHANGED << cellSize, gravityX, gravityY, nextId, staticBodies, cells,
                  created >>
  /\ UNCHANGED outsidePhys

\* clear() (lines 161-165)
Clear ==
  /\ Returned
  /\ dynamicBodies' = << >>
  /\ staticBodies' = << >>
  /\ nextId' = 1
  /\ lastOp' = NoStep
  /\ pre' = << >>
  /\ UNCHANGED << cellSize, gravityX, gravityY, cells, created, removed >>
  /\ UNCHANGED outsidePhys

\* the window inside which bodies are driven and stepped
InWindow(b) ==
  /\ 0 - MaxCoord <= b.x /\ b.x <= MaxCoord
  /\ 0 - MaxCoord <= b.y /\ b.y <= MaxCoord

\* the scene writes the velocity of its one dynamic body, the player
\* (DemoScene.ts lines 390-391)
SetVelocity(vx, vy) ==
  /\ Returned
  /\ dynamicBodies # << >>
  /\ InWindow(dynamicBodies[1])
  /\ dynamicBodies' = [dynamicBodies EXCEPT ![1].vx = vx, ![1].vy = vy]
  /\ lastOp' = NoStep
  /\ pre' = << >>
  /\ UNCHANGED << cellSize, gravityX, gravityY, nextId, staticBodies, cells,
                  created, removed >>
  /\ UNCHANGED outsidePhys

\* step, lines 216-218: if (dt <= 0) return
StepReturnsAtOnceStrict(dt) == dt < 0
StepReturnsAtOnce(dt) == dt <= 0

\* stepping the body enters a query that never returns (line 186): with
\* cellSize 0 no static body is in a bucket, so the first query of an axis is
\* its only one
StepBodyHangs(body, dt) ==
  LET b1 == Integrated(body, dt)
      dx == FMul(b1.vx, dt)
      dy == FMul(b1.vy, dt)
      b2 == Moved(b1, dx, "x")
  IN \/ dx # 0 /\ KeysForHangs(b2, cellSize)
     \/ dy # 0 /\ KeysForHangs(Moved(b2, dy, "y"), cellSize)

\* step(dt) (lines 215-237)
Step(dt) ==
  /\ Returned
  /\ \A i \in 1..Len(dynamicBodies) : InWindow(dynamicBodies[i])
  /\ LET hangs == /\ ~StepReturnsAtOnce(dt)
                  /\ \E i \in 1..Len(dynamicBodies) :
                       StepBodyHangs(dynamicBodies[i], dt)
     IN /\ dynamicBodies' =
             IF StepReturnsAtOnce(dt) \/ hangs THEN dynamicBodies
             ELSE [i \in 1..Len(dynamicBodies) |-> StepBody(dynamicBodies[i], dt)]
        /\ lastOp' = IF hangs THEN Hung ELSE [op |-> "step", dt |-> dt]
  /\ pre' = dynamicBodies
  /\ UNCHANGED << cellSize, gravityX, gravityY, nextId, staticBodies, cells,
                  created, removed >>
  /\ UNCHANGED outsidePhys

PhysNext ==
  \/ \E init \in StaticInits : AddStaticBody(init)
  \/ \E init \in DynamicInits : AddDynamicBody(init)
  \/ \E id \in 1..MaxCreated : RemoveDynamicBody(id)
  \/ Clear
  \/ \E vx \in VxValues, vy \in VyValues : SetVelocity(vx, vy)
  \/ \E dt \in StepDts : Step(dt)

\* ------------------------------------------ resolveAxis in small steps

\* step(dt) on a world with one dynamic body, one statement at a time.  res.pc
\* is the position: "idle" (outside step), "x" (line 227), "y" (line 231),
\* "query" (line 185, top of the do/while), "for" (line 187), "done" (line 236).

\* no step is in progress
NoRes == [pc |-> "idle", dt |-> 0, axis |-> "x", dx |-> 0, dy |-> 0,
          statics |-> << >>, i |-> 0, collided |-> FALSE]
ResIdle == res = NoRes

\* the geometry and the bodies of the worlds that are stepped statement by
\* statement: coordinates past 2^SignificandBits, where sums are rounded
ResolveStaticInits == {Rect(1030, 0, 10, 10), Rect(1040, 0, 10, 10),
                       Rect(1020, 10, 20, 10)}
ResolveDynamicInits == {DynInit(1024, 0, 3, 10, Given(4), NoOpt),
                        DynInit(1024, 0, 4, 10, Given(4), Given(2)),
                        DynInit(1024, 0, 4, 10, Given(8), NoOpt)}
ResolveDts == {1, 2}
ResolveOrigin == [x |-> 1024, y |-> 0]

\* the window of these worlds, around ResolveOrigin
InResolveWindow(b) ==
  InWindow([x |-> b.x - ResolveOrigin.x, y |-> b.y - ResolveOrigin.y])

\* step, lines 216-225: the call, up to dx and dy
StepEnter(dt) ==
  /\ res.pc = "idle"
  /\ ~StepReturnsAtOnce(dt)
  /\ Len(dynamicBodies) = 1
  /\ InResolveWindow(dynamicBodies[1])
  /\ LET b1 == Integrated(dynamicBodies[1], dt)
     IN /\ dynamicBodies' = << b1 >>
        /\ res' = [NoRes EXCEPT !.pc = "x", !.dt = dt,
                                !.dx = FMul(b1.vx, dt), !.dy = FMul(b1.vy, dt)]
  /\ pre' = dynamicBodies
  /\ lastOp' = NoStep
  /\ UNCHANGED << cellSize, gravityX, gravityY, nextId, staticBodies, cells,
                  created, removed >>
  /\ UNCHANGED outsideRes

\* step, lines 227-229, and resolveAxis, lines 173-181, for x
EnterX ==
  /\ res.pc = "x"
  /\ IF res.dx # 0
     THEN /\ dynamicBodies' = << Moved(dynamicBodies[1], res.dx, "x") >>
          /\ res' = [res EXCEPT !.pc = "query", !.axis = "x"]
     ELSE /\ res' = [res EXCEPT !.pc = "y"]
          /\ UNCHANGED dynamicBodies
  /\ UNCHANGED << cellSize, gravityX, gravityY, nextId, staticBodies, cells,
                  created, lastOp, pre, removed >>
  /\ UNCHANGED outsideRes

\* step, lines 231-235, and resolveAxis, lines 173-181, for y
EnterY ==
  /\ res.pc = "y"
  /\ LET b3 == [dynamicBodies[1] EXCEPT !.onGround = FALSE]
     IN IF res.dy # 0
        THEN /\ dynamicBodies' = << Moved(b3, res.dy, "y") >>
             /\ res' = [res EXCEPT !.pc = "query", !.axis = "y"]
        ELSE /\ dynamicBodies' = << b3 >>
             /\ res' = [res EXCEPT !.pc = "done"]
  /\ UNCHANGED << cellSize, gravityX, gravityY, nextId, staticBodies, cells,
                  created, lastOp, pre, removed >>
  /\ UNCHANGED outsideRes

Delta == IF res.axis = "x" THEN res.dx ELSE res.dy

\* resolveAxis, lines 185-186: a pass of the do/while begins
PassBegin ==
  /\ res.pc = "query"
  /\ res' = [res EXCEPT !.pc = "for", !.collided = FALSE, !.i = 1,
                        !.statics = QueryStatics(dynamicBodies[1])]
  /\ UNCHANGED physVars
  /\ UNCHANGED outsideRes

\* resolveAxis, lines 187-211: one candidate of the for loop
PassVisit ==
  /\ res.pc = "for"
  /\ res.i <= Len(res.statics)
  /\ IF AabbOverlap(dynamicBodies[1], res.statics[res.i])
     THEN /\ dynamicBodies' =
               << PushOut(dynamicBodies[1], res.statics[res.i], Delta, res.axis) >>
          /\ res' = [res EXCEPT !.i = @ + 1, !.collided = TRUE]
     ELSE /\ res' = [res EXCEPT !.i = @ + 1]
          /\ UNCHANGED dynamicBodies
  /\ UNCHANGED << cellSize, gravityX, gravityY, nextId, staticBodies, cells,
                  created, lastOp, pre, removed >>
  /\ UNCHANGED outsideRes

\* resolveAxis, line 212: while (collided)
PassEnd ==
  /\ res.pc = "for"
  /\ res.i > Len(res.statics)
  /\ res' = [res EXCEPT !.pc = IF res.collided THEN "query"
                               ELSE IF res.axis = "x" THEN "y" ELSE "done"]
  /\ UNCHANGED physVars
  /\ UNCHANGED outsideRes

\* step, lines 236-237: the one body is done and step returns
StepLeave ==
  /\ res.pc = "done"
  /\ res' = NoRes
  /\ lastOp' = [op |-> "step", dt |-> res.dt]
  /\ UNCHANGED << cellSize, gravityX, gravityY, nextId, dynamicBodies,
                  staticBodies, cells, created, pre, removed >>
  /\ UNCHANGED outsideRes

\* the statements of the do/while of resolveAxis
InPass == res.pc \in {"query", "for"}
PassStep == PassBegin \/ PassVisit \/ PassEnd

\* the world is built and left alone while step runs
ResolveNext ==
  \/ \E init \in ResolveStaticInits : AddStaticBody(init)
  \/ \E init \in ResolveDynamicInits : AddDynamicBody(init)
  \/ \E dt \in ResolveDts : StepEnter(dt)
  \/ EnterX
  \/ EnterY
  \/ PassBegin
  \/ PassVisit
  \/ PassEnd
  \/ StepLeave

\* ------------------------------------------------- spatial hash, model
\* A SpatialHash<T> used directly: cells and cellSize are its two fields, the
\* world around it is left as constructed.

\* no operation yet
NoHashOp == [op |-> "none", arg |-> Rect(0, 0, 0, 0), result |-> << >>]
HashIdle == hashItems = {} /\ lastHashOp = NoHashOp

\* the items (objects, told apart by id) and the areas that are used
Item(id, x, y, w, h) == [id |-> id, x |-> x, y |-> y, width |-> w, height |-> h]
HashItemInits == {Item(1, 0, 0, 50, 50), Item(2, 90, 90, 20, 20),
                  Item(3, -10, 0, 20, 10), Item(4, 0, 0, 50, 50)}
HashAreas == {Rect(40, 40, 20, 20), Rect(200, 200, 10, 10), Rect(40, 0, 70, 10),
              Rect(-5, 95, 10, 10)}
HashCellSizes == {100, 40}

\* Set.delete(item)
SetDelete(bucket, item) == SelectSeq(bucket, LAMBDA e : e # item)

\* a remove that leaves emptied buckets in the map
HashRemoveKeepEmpty(c, item, cs) ==
  LET ks == SeqRange(KeysFor(item, cs))
  IN [k \in DOMAIN c |-> IF k \in ks THEN SetDelete(c[k], item) ELSE c[k]]

\* SpatialHash.remove(item) (lines 70-81)
HashRemove(c, item, cs) ==
  LET ks == SeqRange(KeysFor(item, cs))
      emptied == {k \in ks \cap DOMAIN c : SetDelete(c[k], item) = << >>}
  IN [k \in (DOMAIN c) \ emptied |->
        IF k \in ks THEN SetDelete(c[k], item) ELSE c[k]]

\* new SpatialHash(cellSize)
HashInit ==
  /\ cellSize \in HashCellSizes
  /\ cells = << >>
  /\ HashIdle
  /\ gravityX = 0 /\ gravityY = 0 /\ nextId = 1
  /\ dynamicBodies = << >> /\ staticBodies = << >>
  /\ created = 0 /\ lastOp = NoStep /\ pre = << >> /\ removed = {}

\* add(item) (lines 59-68)
HashAddItem(item) ==
  /\ cells' = HashAdd(cells, item, cellSize)
  /\ hashItems' = hashItems \cup {item}
  /\ lastHashOp' = [op |-> "add", arg |-> item, result |-> << >>]
  /\ UNCHANGED << cellSize, gravityX, gravityY, nextId, dynamicBodies,
                  staticBodies, created, lastOp, pre, removed >>
  /\ UNCHANGED outsideHash

\* remove(item) (lines 70-81)
HashRemoveItem(item) ==
  /\ cells' = HashRemove(cells, item, cellSize)
  /\ hashItems' = hashItems \ {item}
  /\ lastHashOp' = [op |-> "remove", arg |-> item, result |-> << >>]
  /\ UNCHANGED << cellSize, gravityX, gravityY, nextId, dynamicBodies,
                  staticBodies, created, lastOp, pre, removed >>
  /\ UNCHANGED outsideHash

\* query(area) (lines 83-95)
HashQueryArea(area) ==
  /\ lastHashOp' = [op |-> "query", arg |-> area,
                    result |-> Query(cells, area, cellSize)]
  /\ UNCHANGED hashItems
  /\ UNCHANGED physVars
  /\ UNCHANGED outsideHash

HashNext ==
  \/ \E item \in HashItemInits : HashAddItem(item)
  \/ \E item \in HashItemInits : HashRemoveItem(item)
  \/ \E area \in HashAreas : HashQueryArea(area)

\* ------------------------------------------------- input mapper, model
\* the bindings of the scene (DemoScene.ts lines 67-77), left and toggle, and
\* the codes of the raw events: the bound ones and one that is not bound
KeyboardBindings ==
  << [code |-> "ArrowLeft", action |-> "move.left"],
     [code |-> "KeyA", action |-> "move.left"],
     [code |-> "F1", action |-> "debug.toggleHitboxes"] >>
Codes == {"ArrowLeft", "KeyA", "F1", "KeyQ"}

\* keyboardBindings.get(code) (lines 33-45): the actions bound to the code
ActionsOf(code) ==
  {KeyboardBindings[i].action :
     i \in {j \in 1..Len(KeyboardBindings) : KeyboardBindings[j].code = code}}

NoSnapshot == [held |-> {}, pressed |-> {}, released |-> {}]

\* createInputMapper(bindings) (lines 29-49, 91-92)
InputInit ==
  /\ held = {} /\ pressed = {} /\ released = {}
  /\ listening = TRUE
  /\ keysDown = {}
  /\ snapshot = NoSnapshot /\ prevSnapshot = NoSnapshot
  /\ polls = 0
  /\ touchedSincePoll = FALSE
  /\ touchedBetweenPolls = FALSE

\* the mapper of the scene, left alone
InputIdle == InputInit

\* a keydown handler that reports a pressed edge on every event
KeyDownEdgeOnRepeat(code) ==
  /\ keysDown' = keysDown \cup {code}
  /\ touchedSincePoll' = TRUE
  /\ IF listening
     THEN /\ held' = held \cup ActionsOf(code)
          /\ pressed' = pressed \cup ActionsOf(code)
     ELSE UNCHANGED << held, pressed >>
  /\ UNCHANGED << released, listening, snapshot, prevSnapshot, polls,
                  touchedBetweenPolls >>
  /\ UNCHANGED outsideInput

\* a raw keydown event for code (a key goes down, or repeats while down);
\* handleKeyDown (lines 51-69) runs if it still listens
KeyDown(code) ==
  /\ keysDown' = keysDown \cup {code}
  /\ touchedSincePoll' = TRUE
  /\ IF listening
     THEN /\ held' = held \cup ActionsOf(code)
          /\ pressed' = pressed \cup (ActionsOf(code) \ held)
     ELSE UNCHANGED << held, pressed >>
  /\ UNCHANGED << released, listening, snapshot, prevSnapshot, polls,
                  touchedBetweenPolls >>
  /\ UNCHANGED outsideInput

\* a keyup handler that records no released edge
KeyUpNoEdge(code) ==
  /\ keysDown' = keysDown \ {code}
  /\ touchedSincePoll' = TRUE
  /\ IF listening
     THEN held' = held \ ActionsOf(code)
     ELSE UNCHANGED held
  /\ UNCHANGED << pressed, released, listening, snapshot, prevSnapshot, polls,
                  touchedBetweenPolls >>
  /\ UNCHANGED outsideInput

\* a raw keyup event for code; handleKeyUp (lines 71-89) runs if it still
\* listens
KeyUp(code) ==
  /\ keysDown' = keysDown \ {code}
  /\ touchedSincePoll' = TRUE
  /\ IF listening
     THEN /\ held' = held \ ActionsOf(code)
          /\ released' = released \cup (ActionsOf(code) \cap held)
     ELSE UNCHANGED << held, released >>
  /\ UNCHANGED << pressed, listening, snapshot, prevSnapshot, polls,
                  touchedBetweenPolls >>
  /\ UNCHANGED outsideInput

\* a clear() that leaves the set as it is
SetClearKept(set) == set

\* Set.clear()
SetClear(set) == {}

\* a poll() that returns the pressed edges and does not clear them
PollKeepsPressed ==
  /\ snapshot' = [held |-> held, pressed |-> pressed, released |-> released]
  /\ prevSnapshot' = snapshot
  /\ released' = SetClear(released)
  /\ polls' = Min(2, polls + 1)
  /\ touchedBetweenPolls' = touchedSincePoll
  /\ touchedSincePoll' = FALSE
  /\ UNCHANGED << held, pressed, listening, keysDown >>
  /\ UNCHANGED outsideInput

\* poll() (lines 95-104)
Poll ==
  /\ snapshot' = [held |-> held, pressed |-> pressed, released |-> released]
  /\ prevSnapshot' = snapshot
  /\ pressed' = SetClear(pressed)
  /\ released' = SetClear(released)
  /\ polls' = Min(2, polls + 1)
  /\ touchedBetweenPolls' = touchedSincePoll
  /\ touchedSincePoll' = FALSE
  /\ UNCHANGED << held, listening, keysDown >>
  /\ UNCHANGED outsideInput

\* a dispose() that detaches the listeners and forgets to clear held
DisposeKeepHeld ==
  /\ listening' = FALSE
  /\ pressed' = SetClear(pressed)
  /\ released' = SetClear(released)
  /\ touchedSincePoll' = TRUE
  /\ UNCHANGED << held, keysDown, snapshot, prevSnapshot, polls,
                  touchedBetweenPolls >>
  /\ UNCHANGED outsideInput

\* dispose() (lines 108-114)
Dispose ==
  /\ listening' = FALSE
  /\ held' = SetClear(held)
  /\ pressed' = SetClear(pressed)
  /\ released' = SetClear(released)
  /\ touchedSincePoll' = TRUE
  /\ UNCHANGED << keysDown, snapshot, prevSnapshot, polls, touchedBetweenPolls >>
  /\ UNCHANGED outsideInput

\* isHeld(action) (lines 105-107)
IsHeld(action) == action \in held

InputNext ==
  \/ \E code \in Codes : KeyDown(code)
  \/ \E code \in Codes : KeyUp(code)
  \/ Poll
  \/ Dispose

\* ------------------------------------------- the scene's simulation tick
\* startFixedStep(app.ticker, this.handleSimulationStep, { hz: 60 })
SceneHz == 60
MsPerSecond == 1000

\* maxAccumulatedTime is not given: 0.25 s
SceneMaxAccumulatedMs == 250

\* if (this.hudUpdateAccumulator >= 200)
HudPeriodMs == 200

\* app.ticker.deltaMS of the render frames; the scheduler's clock is taken to
\* advance by the same amount, and sums of these are exact
DeltaMSValues == {25, 100}

\* the stages of one tick of a scene that is set up, in the order of the
\* statements of handleSimulationStep (lines 364-411)
StagesStepFirst(toggle, due) ==
  << "physics.step", "input.poll" >>
    \o (IF toggle THEN << "hud.toggleHitboxes" >> ELSE << >>)
    \o << "sync" >>
    \o (IF due THEN << "hud.publish" >> ELSE << >>)

StagesOf(toggle, due) ==
  << "input.poll" >>
    \o (IF toggle THEN << "hud.toggleHitboxes" >> ELSE << >>)
    \o << "physics.step", "sync" >>
    \o (IF due THEN << "hud.publish" >> ELSE << >>)

\* this.hudUpdateAccumulator >= 200 after line 407
HudDue(acc, d) == acc + d >= HudPeriodMs

\* the scene after init() (lines 109-213), which ends with updateHud()
SceneInit ==
  /\ sceneReady = TRUE
  /\ deltaMS = 0
  /\ tickRemainder = 0
  /\ ticksLeft = 0
  /\ hudUpdateAccumulator = 0
  /\ stages = << >>
  /\ tickerMsSincePublish = 0
  /\ lastGapMs = -1
  /\ publishedInRow = 0

\* the scene, left alone
SceneIdle == SceneInit

\* the ticker fires for a render frame of d ms: update() of the scheduler
\* (fixedStep.ts lines 47-54) finds the whole ticks that have elapsed
RenderFrame(d) ==
  /\ sceneReady
  /\ ticksLeft = 0
  /\ deltaMS' = d
  /\ LET total == tickRemainder + SceneHz * FrameElapsed(SceneMaxAccumulatedMs, d)
     IN /\ ticksLeft' = total \div MsPerSecond
        /\ tickRemainder' = total % MsPerSecond
  /\ tickerMsSincePublish' = Min(HudPeriodMs, tickerMsSincePublish + d)
  /\ UNCHANGED << sceneReady, hudUpdateAccumulator, stages, lastGapMs,
                  publishedInRow >>
  /\ UNCHANGED outsideScene

\* handleSimulationStep(dt) (lines 357-412), called once for each tick;
\* toggle: the snapshot's pressed set holds debug.toggleHitboxes
HandleSimulationStep(toggle) ==
  /\ ticksLeft > 0
  /\ ticksLeft' = ticksLeft - 1
  /\ IF ~sceneReady
     THEN /\ stages' = << >>
          /\ UNCHANGED << hudUpdateAccumulator, tickerMsSincePublish, lastGapMs,
                          publishedInRow >>
     ELSE LET due == HudDue(hudUpdateAccumulator, deltaMS)
          IN /\ stages' = StagesOf(toggle, due)
             /\ hudUpdateAccumulator' =
                  IF due THEN 0 ELSE hudUpdateAccumulator + deltaMS
             /\ tickerMsSincePublish' = IF due THEN 0 ELSE tickerMsSincePublish
             /\ lastGapMs' = IF due THEN tickerMsSincePublish ELSE lastGapMs
             /\ publishedInRow' = IF due THEN Min(2, publishedInRow + 1) ELSE 0
  /\ UNCHANGED << sceneReady, deltaMS, tickRemainder >>
  /\ UNCHANGED outsideScene

\* destroy() (lines 215-246): input and physicsWorld become undefined
SceneDestroy ==
  /\ sceneReady
  /\ sceneReady' = FALSE
  /\ UNCHANGED << deltaMS, tickRemainder, ticksLeft, hudUpdateAccumulator,
                  stages, tickerMsSincePublish, lastGapMs, publishedInRow >>
  /\ UNCHANGED outsideScene

SceneNext ==
  \/ \E d \in DeltaMSValues : RenderFrame(d)
  \/ \E toggle \in BOOLEAN : HandleSimulationStep(toggle)
  \/ SceneDestroy

\* ------------------------------- two physics worlds with the same statics

\* Two worlds are run side by side.  They are created with the same options
\* and are given the same static bodies, so staticBodies, cells, cellSize and
\* gravity stand for both.  dynamicBodies are the dynamic bodies of the first
\* world and twin those of the second.  The first body is added to both
\* worlds and is driven alike in both; the other body is added to the first
\* world only.

TwinIdle == twin = << >>

\* the static bodies of the two worlds and the velocities bodies are given
PairStaticInits == {Rect(15, 0, 10, 10), Rect(0, 10, 10, 10)}
PairVelocities == {<< -10, 0 >>, << 20, 0 >>, << 0, 10 >>}

\* the bodies that only the first world has
OtherInits == {DynInit(-5, 0, 10, 10, NoOpt, NoOpt),
               DynInit(0, 5, 10, 10, Given(0), Given(-10))}

\* addDynamicBody, lines 139-151: the body that is stored
DynamicBodyOf(init, id) ==
  [id |-> id, x |-> init.x, y |-> init.y,
   width |-> init.width, height |-> init.height,
   vx |-> OrElse(init.vx, 0), vy |-> OrElse(init.vy, 0),
   ax |-> OrElse(init.ax, 0), ay |-> OrElse(init.ay, 0),
   gravityScale |-> OrElse(init.gravityScale, 1),
   onGround |-> FALSE]

\* addDynamicBody(init) on both worlds
AddSharedBody(init) ==
  /\ Returned
  /\ created < MaxCreated
  /\ dynamicBodies = << >> /\ twin = << >>
  /\ created' = created + 1
  /\ dynamicBodies' = << DynamicBodyOf(init, nextId) >>
  /\ twin' = << DynamicBodyOf(init, nextId) >>
  /\ nextId' = nextId + 1
  /\ lastOp' = NoStep
  /\ pre' = << >>
  /\ UNCHANGED << cellSize, gravityX, gravityY, staticBodies, cells, removed >>
  /\ UNCHANGED << schedVars, histVars, resVars, hashVars, inputVars, sceneVars,
                  ecsVars, regVars >>

\* addDynamicBody(init) on the first world only
AddOtherBody(init) ==
  /\ Returned
  /\ created < MaxCreated
  /\ Len(dynamicBodies) = 1
  /\ created' = created + 1
  /\ dynamicBodies' = Append(dynamicBodies, DynamicBodyOf(init, nextId))
  /\ nextId' = nextId + 1
  /\ lastOp' = NoStep
  /\ pre' = << >>
  /\ UNCHANGED << cellSize, gravityX, gravityY, staticBodies, cells, removed >>
  /\ UNCHANGED outsidePhys

\* the caller sets the velocity of a body: that of the shared body in both
\* worlds, that of the other body in the first world
PairSetVelocity(i, vx, vy) ==
  /\ Returned
  /\ i \in 1..Len(dynamicBodies)
  /\ InWindow(dynamicBodies[i])
  /\ dynamicBodies' = [dynamicBodies EXCEPT ![i].vx = vx, ![i].vy = vy]
  /\ twin' = IF i = 1 THEN [twin EXCEPT ![1].vx = vx, ![1].vy = vy] ELSE twin
  /\ lastOp' = NoStep
  /\ pre' = << >>
  /\ UNCHANGED << cellSize, gravityX, gravityY, nextId, staticBodies, cells,
                  created, removed >>
  /\ UNCHANGED << schedVars, histVars, resVars, hashVars, inputVars, sceneVars,
                  ecsVars, regVars >>

\* a step in which a dynamic body that would end inside another dynamic body
\* of its world stays where it was
StepAllBlocking(bodies, dt) ==
  IF StepReturnsAtOnce(dt) THEN bodies
  ELSE [i \in 1..Len(bodies) |->
          LET b == StepBody(bodies[i], dt)
          IN IF \E j \in 1..Len(bodies) : j # i /\ AabbOverlap(b, bodies[j])
             THEN bodies[i] ELSE b]

\* step, lines 216-236, on the dynamic bodies of one world
StepAll(bodies, dt) ==
  IF StepReturnsAtOnce(dt) THEN bodies
  ELSE [i \in 1..Len(bodies) |-> StepBody(bodies[i], dt)]

\* step(dt) on both worlds
PairStep(dt) ==
  /\ Returned
  /\ dynamicBodies # << >>
  /\ \A i \in 1..Len(dynamicBodies) :
       InWindow(dynamicBodies[i]) /\ ~StepBodyHangs(dynamicBodies[i], dt)
  /\ dynamicBodies' = StepAll(dynamicBodies, dt)
  /\ twin' = StepAll(twin, dt)
  /\ lastOp' = [op |-> "step", dt |-> dt]
  /\ pre' = dynamicBodies
  /\ UNCHANGED << cellSize, gravityX, gravityY, nextId, staticBodies, cells,
                  created, removed >>
  /\ UNCHANGED << schedVars, histVars, resVars, hashVars, inputVars, sceneVars,
                  ecsVars, regVars >>

PairNext ==
  \/ \E init \in PairStaticInits : AddStaticBody(init)
  \/ \E init \in DynamicInits : AddSharedBody(init)
  \/ \E init \in OtherInits : AddOtherBody(init)
  \/ \E i \in 1..2, v \in PairVelocities : PairSetVelocity(i, v[1], v[2])
  \/ \E dt \in StepDts : PairStep(dt)

\* -------------------------------------------------------- the ECS World

\* One World (ecs.ts lines 31-178).  A component store is a Map<Entity, value>
\* and is modelled by the sequence of its entries [entity, value] in
\* insertion order; stores is a function from the descriptors that have a
\* store to their stores.  A component value is the payload the factory of
\* the descriptor builds, tagged with the descriptor that built it.

\* at most MaxEntity entities are created between two clear()
MaxEntity == 2

\* the descriptors defineComponent has returned, and what callers pass as
\* the initial value of a component
Descriptors == {"Transform", "Physics"}
ComponentInits == {NoOpt, Given(1)}
\* the ids operations are called with: MaxEntity + 1 is never created
EntityIds == 1..(MaxEntity + 1)

\* the descriptor lists that are queried
QueryLists == {<< >>} \cup {<< c >> : c \in Descriptors}
                \cup {<< c, d >> : c \in Descriptors, d \in Descriptors}

\* defineComponent, lines 184-192: create(initial)
Create(descriptor, initial) == [of |-> descriptor, v |-> OrElse(initial, 0)]

\* store.get(entity) === undefined
Undefined == [of |-> "undefined", v |-> 0]

\* Map operations on a component store
StoreHas(store, entity) == \E i \in 1..Len(store) : store[i].entity = entity
StoreGet(store, entity) ==
  IF StoreHas(store, entity)
  THEN store[CHOOSE i \in 1..Len(store) : store[i].entity = entity].value
  ELSE Undefined
StoreSet(store, entity, value) ==
  IF StoreHas(store, entity)
  THEN [i \in 1..Len(store) |->
          IF store[i].entity = entity THEN [store[i] EXCEPT !.value = value]
          ELSE store[i]]
  ELSE Append(store, [entity |-> entity, value |-> value])
StoreDelete(store, entity) ==
  LET Other(entry) == entry.entity # entity
  IN SelectSeq(store, Other)
StoreKeys(store) == {store[i].entity : i \in 1..Len(store)}

\* ensureStore(descriptor) (lines 164-171)
EnsureStore(st, descriptor) ==
  IF descriptor \in DOMAIN st THEN st ELSE st @@ (descriptor :> << >>)

RECURSIVE EnsureStores(_, _, _)
EnsureStores(st, components, i) ==
  IF i > Len(components) THEN st
  ELSE EnsureStores(EnsureStore(st, components[i]), components, i + 1)

\* getSmallestStore(stores) (lines 154-162)
RECURSIVE SmallestFrom(_, _, _)
SmallestFrom(ss, i, smallest) ==
  IF i > Len(ss) THEN smallest
  ELSE SmallestFrom(ss, i + 1,
                    IF Len(ss[i]) < Len(smallest) THEN ss[i] ELSE smallest)
GetSmallestStore(ss) == SmallestFrom(ss, 2, ss[1])

\* a check of the first listed component only
PassesFirstOnly(ss, entity) == StoreGet(ss[1], entity) # Undefined

\* query, lines 124-134: the entity has a value in every listed store
Passes(ss, entity) ==
  \A i \in 1..Len(ss) : StoreGet(ss[i], entity) # Undefined

\* query, lines 114-151, for a list that is not empty: the array returned
QueryResults(st, live, components) ==
  LET ss == [i \in 1..Len(components) |-> st[components[i]]]
      primaryStore == GetSmallestStore(ss)
      Yields(entry) == entry.entity \in live /\ Passes(ss, entry.entity)
      hits == SelectSeq(primaryStore, Yields)
  IN [k \in 1..Len(hits) |->
        [entity |-> hits[k].entity,
         components |-> [i \in 1..Len(ss) |-> StoreGet(ss[i], hits[k].entity)]]]

\* the outcome of an operation
EcsOp(op, entity, components, threw, result) ==
  [op |-> op, entity |-> entity, components |-> components, threw |-> threw,
   result |-> result]
NoEcsOp == EcsOp("none", 0, << >>, FALSE, << >>)

\* new World()
EcsInit ==
  /\ nextEntity = 1
  /\ alive = {}
  /\ stores = << >>
  /\ issued = {}
  /\ ecsLast = NoEcsOp

EcsIdle == EcsInit

outsideEcs == << schedVars, histVars, physVars, resVars, hashVars, inputVars,
                 sceneVars, twinVars, regVars >>

\* createEntity() (lines 36-40)
CreateEntity ==
  /\ nextEntity <= MaxEntity
  /\ nextEntity' = nextEntity + 1
  /\ alive' = alive \cup {nextEntity}
  /\ issued' = issued \cup {nextEntity}
  /\ ecsLast' = EcsOp("createEntity", nextEntity, << >>, FALSE, << >>)
  /\ UNCHANGED stores
  /\ UNCHANGED outsideEcs

\* a destroyEntity that leaves the component stores alone
DestroyEntityKeepsComponents(entity) ==
  /\ alive' = alive \ {entity}
  /\ ecsLast' = EcsOp("destroyEntity", entity, << >>, FALSE, << >>)
  /\ UNCHANGED << nextEntity, stores, issued >>
  /\ UNCHANGED outsideEcs

\* destroyEntity(entity) (lines 46-53)
DestroyEntity(entity) ==
  /\ alive' = alive \ {entity}
  /\ stores' = IF entity \in alive
               THEN [d \in DOMAIN stores |-> StoreDelete(stores[d], entity)]
               ELSE stores
  /\ ecsLast' = EcsOp("destroyEntity", entity, << >>, FALSE, << >>)
  /\ UNCHANGED << nextEntity, issued >>
  /\ UNCHANGED outsideEcs

\* addComponent(entity, descriptor, value) (lines 59-65); assertAlive
\* (lines 173-177) throws for an entity that is not alive
AddComponent(entity, descriptor, initial) ==
  /\ stores' = IF entity \in alive
               THEN [EnsureStore(stores, descriptor) EXCEPT ![descriptor] =
                       StoreSet(@, entity, Create(descriptor, initial))]
               ELSE stores
  /\ ecsLast' = EcsOp("addComponent", entity, << descriptor >>,
                      entity \notin alive, << >>)
  /\ UNCHANGED << nextEntity, alive, issued >>
  /\ UNCHANGED outsideEcs

\* removeComponent(entity, descriptor) (lines 79-82)
RemoveComponent(entity, descriptor) ==
  /\ stores' = IF descriptor \in DOMAIN stores
               THEN [stores EXCEPT ![descriptor] = StoreDelete(@, entity)]
               ELSE stores
  /\ ecsLast' = EcsOp("removeComponent", entity, << descriptor >>, FALSE,
                      << descriptor \in DOMAIN stores
                           /\ StoreHas(stores[descriptor], entity) >>)
  /\ UNCHANGED << nextEntity, alive, issued >>
  /\ UNCHANGED outsideEcs

\* clear() (lines 94-101)
EcsClear ==
  /\ alive' = {}
  /\ stores' = [d \in DOMAIN stores |-> << >>]
  /\ nextEntity' = 1
  /\ ecsLast' = EcsOp("clear", 0, << >>, FALSE, << >>)
  /\ UNCHANGED issued
  /\ UNCHANGED outsideEcs

\* query(components) without a callback (lines 104-152)
WorldQuery(components) ==
  /\ stores' = IF components = << >> THEN stores
               ELSE EnsureStores(stores, components, 1)
  /\ ecsLast' = IF components = << >>
                THEN EcsOp("query", 0, components, TRUE, << >>)
                ELSE EcsOp("query", 0, components, FALSE,
                           QueryResults(stores', alive, components))
  /\ UNCHANGED << nextEntity, alive, issued >>
  /\ UNCHANGED outsideEcs

EcsNext ==
  \/ CreateEntity
  \/ \E entity \in EntityIds : DestroyEntity(entity)
  \/ \E entity \in EntityIds, descriptor \in Descriptors,
        initial \in ComponentInits : AddComponent(entity, descriptor, initial)
  \/ \E entity \in EntityIds, descriptor \in Descriptors :
       RemoveComponent(entity, descriptor)
  \/ EcsClear
  \/ \E components \in QueryLists : WorldQuery(components)

\* ---------------------------------------------------- the EntityRegistry

\* One EntityRegistry (lines 14-96).  byId is a function from the ids that
\* are stored to their records, byKind a function from the kinds that have a
\* set to their sets of ids.

\* at most MaxRegId records are added between two clear()
MaxRegId == 3

Kinds == {"enemy", "pickup"}
RegIds == 1..(MaxRegId + 1)

\* the outcome of an operation
RegOp(op, id, kind, result) ==
  [op |-> op, id |-> id, kind |-> kind, result |-> result]
NoRegOp == RegOp("none", 0, "", FALSE)

\* new EntityRegistry()
RegInit ==
  /\ regNextId = 1
  /\ byId = << >>
  /\ byKind = << >>
  /\ regLast = NoRegOp

RegIdle == RegInit

outsideReg == << schedVars, histVars, physVars, resVars, hashVars, inputVars,
                 sceneVars, twinVars, ecsVars >>

\* Map.set and Map.delete
MapSet(map, key, value) ==
  [k \in DOMAIN map \cup {key} |-> IF k = key THEN value ELSE map[k]]
MapDelete(map, key) == [k \in DOMAIN map \ {key} |-> map[k]]

\* add(kind, data) (lines 19-32)
RegAdd(kind) ==
  /\ regNextId <= MaxRegId
  /\ regNextId' = regNextId + 1
  /\ byId' = MapSet(byId, regNextId, [id |-> regNextId, kind |-> kind])
  /\ byKind' = LET withKind == IF kind \in DOMAIN byKind THEN byKind
                               ELSE MapSet(byKind, kind, {})
               IN [withKind EXCEPT ![kind] = @ \cup {regNextId}]
  /\ regLast' = RegOp("add", regNextId, kind, TRUE)
  /\ UNCHANGED outsideReg

\* a remove that keeps the set of a kind when it becomes empty
RegRemoveKeepsKind(id) ==
  /\ byId' = MapDelete(byId, id)
  /\ byKind' = IF id \in DOMAIN byId /\ byId[id].kind \in DOMAIN byKind
               THEN [byKind EXCEPT ![byId[id].kind] = @ \ {id}]
               ELSE byKind
  /\ regLast' = RegOp("remove", id, "", id \in DOMAIN byId)
  /\ UNCHANGED regNextId
  /\ UNCHANGED outsideReg

\* remove(id) (lines 46-61)
RegRemove(id) ==
  /\ IF id \notin DOMAIN byId
     THEN UNCHANGED << byId, byKind >>
     ELSE LET kind == byId[id].kind
              ids == IF kind \in DOMAIN byKind THEN byKind[kind] \ {id} ELSE {}
          IN /\ byId' = MapDelete(byId, id)
             /\ byKind' = IF kind \notin DOMAIN byKind THEN byKind
                          ELSE IF ids = {} THEN MapDelete(byKind, kind)
                          ELSE [byKind EXCEPT ![kind] = ids]
  /\ regLast' = RegOp("remove", id, "", id \in DOMAIN byId)
  /\ UNCHANGED regNextId
  /\ UNCHANGED outsideReg

\* clear() (lines 63-67)
RegClear ==
  /\ byId' = << >>
  /\ byKind' = << >>
  /\ regNextId' = 1
  /\ regLast' = RegOp("clear", 0, "", FALSE)
  /\ UNCHANGED outsideReg

\* count(kind) and count() (lines 69-74)
CountOf(kind) == IF kind \in DOMAIN byKind THEN Cardinality(byKind[kind]) ELSE 0
CountAll == Cardinality(DOMAIN byId)

RegNext ==
  \/ \E kind \in Kinds : RegAdd(kind)
  \/ \E id \in RegIds : RegRemove(id)
  \/ RegClear

\* ------------------------------------------------------- specifications
Init == SchedInit /\ PhysIdle /\ ResIdle /\ HashIdle /\ InputIdle
  /\ SceneIdle /\ TwinIdle /\ EcsIdle /\ RegIdle

Next ==
  \/ Tick
  \/ UpdatePaused
  \/ UpdateBegin
  \/ CallStepFn
  \/ StepFnReturn
  \/ StepFnThrow
  \/ UpdateReturn
  \/ Pause
  \/ Resume
  \/ Detach

Spec == Init /\ [][Next]_vars

\* the scheduler as DemoScene starts it, startFixedStep(ticker, fn, { hz: 60 }),
\* left alone while the world is exercised
SchedIdle ==
  /\ SchedInit
  /\ hz = TimeUnitsPerSecond
  /\ maxAccumulated = DefaultMaxAccumulated

PhysSpecInit == PhysInit /\ SchedIdle /\ ResIdle /\ HashIdle /\ InputIdle
  /\ SceneIdle /\ TwinIdle /\ EcsIdle /\ RegIdle

PhysSpec == PhysSpecInit /\ [][PhysNext]_vars

\* the input mapper on its own
InputSpecInit == InputInit /\ SchedIdle /\ PhysIdle /\ ResIdle /\ HashIdle
  /\ SceneIdle /\ TwinIdle /\ EcsIdle /\ RegIdle

InputSpec == InputSpecInit /\ [][InputNext]_vars

\* a spatial hash on its own
HashSpecInit == HashInit /\ SchedIdle /\ ResIdle /\ InputIdle
  /\ SceneIdle /\ TwinIdle /\ EcsIdle /\ RegIdle

HashSpec == HashSpecInit /\ [][HashNext]_vars

\* step statement by statement: a statement of a loop that can run does run
ResolveSpecInit == PhysInit /\ SchedIdle /\ ResIdle /\ HashIdle /\ InputIdle
  /\ SceneIdle /\ TwinIdle /\ EcsIdle /\ RegIdle

ResolveSpec ==
  ResolveSpecInit /\ [][ResolveNext]_vars /\ WF_vars(PassStep)

\* ------------------------------------------------- properties, scheduler

\* getInterpolationAlpha() (lines 88-90) lies in [0, 1)
AlphaInUnitInterval == 0 <= accumulator /\ accumulator < fixedDt

C2_AtMostFloorOfClamp ==
  frameClamped => callsThisFrame <= maxAccumulated \div fixedDt

\* C2 amended: such an invocation calls stepFn at most
\* floor((a + maxAccumulated) / fixedDt) times, a being the accumulator carried
\* in; that is at most floor(maxAccumulated / fixedDt) + 1 when a < fixedDt.
C2_ClampBoundsSteps ==
  frameClamped =>
    /\ callsThisFrame <= (frameAcc0 + maxAccumulated) \div fixedDt
    /\ frameAcc0 < fixedDt => callsThisFrame <= maxAccumulated \div fixedDt + 1

C2_Witness ==
  /\ pc = "idle" /\ lastRun = "ran" /\ frameClamped
  /\ frameAcc0 < fixedDt
  /\ callsThisFrame = maxAccumulated \div fixedDt + 1

C4_ConstantDelta ==
  [][ /\ (pc = "loop" /\ pc' = "inStep")
          => stepArg' = TimeUnitsPerSecond \div Max(1, hz)
      /\ (pc = "inStep" /\ pc' = "loop")
          => /\ accumulator' = accumulator - TimeUnitsPerSecond \div Max(1, hz)
             /\ stepsLastFrame' = stepsLastFrame + 1 ]_vars

C4_Witness ==
  /\ pc = "inStep" /\ hz = 0 /\ stepArg = TimeUnitsPerSecond
  /\ frameClamped /\ run = "void" /\ accumulator > stepArg

\* C5: stepFn is not called while paused, and an invocation made while paused
\* refreshes lastTime, keeps the accumulator and zeroes stepsLastFrame.
C5_NoStepWhilePaused ==
  [][ /\ (pc = "loop" /\ pc' = "inStep") => ~paused
      /\ (pc = "idle" /\ paused /\ lastPaused' /\ lastTime' # lastTime)
          => (lastTime' = now /\ accumulator' = accumulator /\ stepsLastFrame' = 0)
    ]_vars

\* C6: the first invocation after resume() runs
\* floor((a + min(maxAccumulated, time since resume)) / fixedDt) steps, a being
\* the accumulator the controller was paused with, whatever the length of the
\* pause and the number of invocations made while paused.
C6_ResumeDiscardsPause ==
  (pc = "idle" /\ lastRun = "ran" /\ pause6.phase = "first")
    => stepsLastFrame =
         (pause6.acc + Min(maxAccumulated, pause6.sinceResume)) \div fixedDt

C6_Witness ==
  /\ pc = "idle" /\ lastRun = "ran" /\ pause6.phase = "first"
  /\ pause6.pausedInvs >= 1 /\ pause6.pauseLen >= fixedDt
  /\ pause6.pauseLen > pause6.sinceResume
  /\ pause6.acc > 0 /\ stepsLastFrame >= 1

\* C7: after detach() has returned stepFn is not called again, and a second
\* detach() changes nothing.
C7_NoStepAfterDetach ==
  [][ /\ (pc = "loop" /\ pc' = "inStep") => registered
      /\ (detachCalls = 1 /\ detachCalls' = 2) => UNCHANGED schedVars ]_vars

\* ------------------------------------------------ properties, physics

\* the last operation was step(dt) with dt > 0 on a world with one dynamic body
Stepped == lastOp.op = "step" /\ lastOp.dt > 0 /\ Len(pre) = 1

StaticSet == SeqRange(staticBodies)

\* every static reachable through the spatial hash is a static of the world
NoStaleStatics == \A k \in DOMAIN cells : SeqRange(cells[k]) \subseteq StaticSet

\* the world of the example: no gravity, one static {x:15,y:0,width:10,height:10}
\* and, before step(1), one dynamic {x:0,y:0,width:10,height:10,vx:100,vy:0}
ExampleStepped ==
  /\ Stepped /\ lastOp.dt = 1
  /\ gravityX = 0 /\ gravityY = 0
  /\ Len(staticBodies) = 1 /\ NoStaleStatics
  /\ staticBodies[1].x = 15 /\ staticBodies[1].y = 0
  /\ staticBodies[1].width = 10 /\ staticBodies[1].height = 10
  /\ pre[1].x = 0 /\ pre[1].y = 0 /\ pre[1].width = 10 /\ pre[1].height = 10
  /\ pre[1].vx = 100 /\ pre[1].vy = 0 /\ pre[1].ax = 0 /\ pre[1].ay = 0

\* C8 as stated: in the example step(1) leaves the body at x = 5 with vx = 0.
C8_ExampleEndsFlush ==
  ExampleStepped => (dynamicBodies[1].x = 5 /\ dynamicBodies[1].vx = 0)

\* C8 amended: in the example step(1) leaves the body at x = 100 with vx = 100;
\* the displaced box [100, 110) does not overlap the static [15, 25), so
\* nothing pushes it back.
C8_ExampleTunnels ==
  ExampleStepped =>
    /\ dynamicBodies[1].x = 100 /\ dynamicBodies[1].vx = 100
    /\ dynamicBodies[1].y = 0 /\ dynamicBodies[1].vy = 0

C8_Witness == ExampleStepped /\ dynamicBodies[1].x = 100

\* the body before the step moves along x only / along y only
MovesAlongX(p) ==
  /\ p.vx # 0 /\ p.ax = 0 /\ gravityX = 0
  /\ p.vy = 0 /\ p.ay = 0 /\ gravityY * p.gravityScale = 0
MovesAlongY(p) ==
  /\ p.vy # 0 /\ p.ay = 0 /\ gravityY * p.gravityScale = 0
  /\ p.vx = 0 /\ p.ax = 0 /\ gravityX = 0

\* the box of p displaced by its velocity for dt
DisplacedBox(p, dt) == [p EXCEPT !.x = @ + p.vx * dt, !.y = @ + p.vy * dt]

\* the statics of the world the displaced box overlaps
HitBy(p, dt) == {s \in StaticSet : AabbOverlap(DisplacedBox(p, dt), s)}

\* the leading edge of b, moving with velocity v along the axis, is flush
\* against the facing edge of s
FlushX(b, s, v) ==
  /\ IF v > 0 THEN b.x + b.width = s.x ELSE b.x = s.x + s.width
  /\ b.y < s.y + s.height /\ s.y < b.y + b.height
FlushY(b, s, v) ==
  /\ IF v > 0 THEN b.y + b.height = s.y ELSE b.y = s.y + s.height
  /\ b.x < s.x + s.width /\ s.x < b.x + b.width

\* the claim of C9 about one step of body p to body b
OneAxisFlush(p, b, dt) ==
  /\ (MovesAlongX(p) /\ HitBy(p, dt) # {})
       => /\ \E s \in StaticSet : FlushX(b, s, p.vx)
          /\ b.vx = 0 /\ b.y = p.y /\ b.vy = p.vy
  /\ (MovesAlongY(p) /\ HitBy(p, dt) # {})
       => /\ \E s \in StaticSet : FlushY(b, s, p.vy)
          /\ b.vy = 0 /\ b.x = p.x /\ b.vx = p.vx

\* C9: a body moving along one axis into a static body ends the step flush
\* against a static body's facing edge, with zero velocity on that axis and
\* position and velocity on the other axis unchanged.
C9_OneAxisEndsFlush ==
  Stepped => OneAxisFlush(pre[1], dynamicBodies[1], lastOp.dt)

\* C10: a body that step has moved overlaps no static body of the world at the
\* end of the step, also when the displaced box overlapped two or more of them.
C10_OverlapsNoStatic ==
  (Stepped /\ (Integrated(pre[1], lastOp.dt).vx # 0
                 \/ Integrated(pre[1], lastOp.dt).vy # 0))
    => \A s \in StaticSet : ~AabbOverlap(dynamicBodies[1], s)

C10_Witness ==
  /\ Stepped /\ MovesAlongX(pre[1])
  /\ Cardinality(HitBy(pre[1], lastOp.dt)) >= 2
  /\ \A s \in StaticSet : ~AabbOverlap(dynamicBodies[1], s)
  /\ dynamicBodies[1].vx = 0

\* the scheduler started with a negative or an infinite hz; the loop of
\* update goes on and stepFn comes to an end (by returning or throwing)
LoopStep == CallStepFn \/ StepFnReturn \/ StepFnThrow \/ UpdateReturn

HzSpecInit ==
  /\ StartFixedStep(HzEdgeValues, {NoOpt})
  /\ PhysIdle /\ ResIdle /\ HashIdle /\ InputIdle /\ SceneIdle /\ TwinIdle /\ EcsIdle /\ RegIdle

HzSpec == HzSpecInit /\ [][Next]_vars /\ WF_vars(LoopStep)

\* worlds created with a cellSize that is not positive
NonPositiveCellOptions == {[cellSize |-> Given(0), gravity |-> NoGravity],
                           [cellSize |-> Given(-10), gravity |-> NoGravity]}

CellSpecInit ==
  /\ CreatePhysicsWorld(NonPositiveCellOptions)
  /\ SchedIdle /\ ResIdle /\ HashIdle /\ InputIdle /\ SceneIdle /\ TwinIdle /\ EcsIdle /\ RegIdle

CellSpec == CellSpecInit /\ [][PhysNext]_vars

\* the scene's tick on its own
SceneSpecInit ==
  SceneInit /\ SchedIdle /\ PhysIdle /\ ResIdle /\ HashIdle /\ InputIdle
  /\ TwinIdle /\ EcsIdle /\ RegIdle

SceneSpec == SceneSpecInit /\ [][SceneNext]_vars

\* C11: the do/while of resolveAxis is left after finitely many passes: once
\* the loop is entered, control reaches the statement after it.
C11_ResolveAxisTerminates == InPass ~> ~InPass

\* the displacements step computes for body p (lines 221-225)
StepDx(p, dt) == FMul(Integrated(p, dt).vx, dt)
StepDy(p, dt) == FMul(Integrated(p, dt).vy, dt)

\* b rests on top of s: its bottom edge lies on the top edge of s
RestsOn(b, s) ==
  /\ FAdd(b.y, b.height) = s.y
  /\ b.x < FAdd(s.x, s.width) /\ s.x < FAdd(b.x, b.width)
Resting(b) == \E s \in StaticSet : RestsOn(b, s)

\* C12 as stated: a body that rests on top of a static body before and after
\* a step reports onGround = true at the end of it, and a resting body that
\* an upward velocity moves clear reports onGround = false.
C12_RestingReportsGround ==
  Stepped =>
    /\ (Resting(pre[1]) /\ Resting(dynamicBodies[1])
          /\ dynamicBodies[1].y = pre[1].y /\ dynamicBodies[1].x = pre[1].x)
         => dynamicBodies[1].onGround
    /\ (Resting(pre[1]) /\ StepDy(pre[1], lastOp.dt) < 0)
         => ~dynamicBodies[1].onGround

\* C12 amended: a body resting on top of a static body reports onGround = true
\* at the end of every step that displaces it downward (by gravity or by its
\* velocity) by less than the two heights and not sideways; at the end of a
\* step with no downward displacement, and so at the end of the first step
\* after an upward impulse moves it clear, it reports onGround = false.
C12_PressedReportsGround ==
  Stepped =>
    LET p == pre[1]
        b == dynamicBodies[1]
        dx == StepDx(p, lastOp.dt)
        dy == StepDy(p, lastOp.dt)
    IN /\ (dx = 0 /\ dy > 0
              /\ \E s \in StaticSet : RestsOn(p, s) /\ dy < s.height + p.height)
            => (b.onGround /\ b.vy = 0 /\ b.y <= p.y)
       /\ (Resting(p) /\ dy <= 0) => ~b.onGround

C12_Witness ==
  /\ Stepped /\ gravityY > 0
  /\ Resting(pre[1]) /\ pre[1].onGround /\ pre[1].vy = 0
  /\ StepDx(pre[1], lastOp.dt) = 0 /\ StepDy(pre[1], lastOp.dt) > 0
  /\ dynamicBodies[1].onGround /\ dynamicBodies[1].y = pre[1].y

\* every static body reachable through the spatial hash
HashStatics == UNION {SeqRange(cells[k]) : k \in DOMAIN cells}

\* C13: at the end of step(dt > 0) onGround is true exactly if the Y phase of
\* that step moved the body in +y and pushed it out of a static body, which it
\* then rests on; the value of the step before, X collisions, ceiling
\* collisions and steps without vertical displacement leave it false.
C13_GroundIffLanded ==
  Stepped =>
    LET p == pre[1]
        b == dynamicBodies[1]
        dy == StepDy(p, lastOp.dt)
    IN /\ b.onGround <=> (dy > 0 /\ b.y # FAdd(p.y, dy))
       /\ b.onGround => \E s \in HashStatics : FlushY(b, s, dy)

C13_Witness ==
  /\ Stepped /\ pre[1].onGround
  /\ StepDy(pre[1], lastOp.dt) = 0
  /\ StepDx(pre[1], lastOp.dt) # 0
  /\ dynamicBodies[1].x # FAdd(pre[1].x, StepDx(pre[1], lastOp.dt))
  /\ ~dynamicBodies[1].onGround

\* C14: step resolves x completely and then y from the x-resolved position:
\* x and vx at the end are those of the X resolution alone, which leaves y and
\* vy as they were; y and vy at the end are those of the Y resolution started
\* from the x-resolved position, which leaves x and vx as they were.
C14_XBeforeY ==
  Stepped =>
    LET b1 == Integrated(pre[1], lastOp.dt)
        dx == StepDx(pre[1], lastOp.dt)
        dy == StepDy(pre[1], lastOp.dt)
        bx == ResolveAxis(b1, dx, "x")
        by == ResolveAxis([bx EXCEPT !.onGround = FALSE], dy, "y")
        b == dynamicBodies[1]
    IN /\ bx.y = b1.y /\ bx.vy = b1.vy
       /\ by.x = bx.x /\ by.vx = bx.vx
       /\ b.x = bx.x /\ b.vx = bx.vx
       /\ b.y = by.y /\ b.vy = by.vy

\* a diagonal move whose outcome depends on the order of the axes
C14_Witness ==
  /\ Stepped
  /\ StepDx(pre[1], lastOp.dt) # 0 /\ StepDy(pre[1], lastOp.dt) # 0
  /\ dynamicBodies[1].vx = 0
  /\ dynamicBodies[1] # StepBodyYFirst(pre[1], lastOp.dt)

\* ------------------------------------------- properties, spatial hash

\* the cells the AABB of a overlaps: floor(x / cs) .. floor((x + width) / cs)
\* by floor(y / cs) .. floor((y + height) / cs)
OverlappedCells(a, cs) ==
  {<< cx, cy >> : cx \in (a.x \div cs)..((a.x + a.width) \div cs),
                  cy \in (a.y \div cs)..((a.y + a.height) \div cs)}

NoDuplicates(q) == \A i, j \in 1..Len(q) : q[i] = q[j] => i = j

\* the buckets hold exactly the added items, each in exactly its cells
BucketsExact ==
  /\ \A k \in DOMAIN cells :
       /\ cells[k] # << >> /\ NoDuplicates(cells[k])
       /\ \A it \in SeqRange(cells[k]) :
            it \in hashItems /\ k \in OverlappedCells(it, cellSize)
  /\ \A it \in hashItems : \A k \in OverlappedCells(it, cellSize) :
       k \in DOMAIN cells /\ it \in SeqRange(cells[k])

\* C15: after any adds and removes, an item is in the bucket of cell k exactly
\* if it is currently added and k is a cell its AABB overlaps, no bucket is
\* empty, and removing an item just added gives back the cell map as it was.
C15_BucketsExactAndRestored ==
  /\ []BucketsExact
  /\ [][ (lastHashOp'.op = "add" /\ lastHashOp'.arg \notin hashItems)
           => HashRemove(cells', lastHashOp'.arg, cellSize) = cells ]_vars

\* an item was removed from a cell it shared and from a cell it had alone
C15_Witness ==
  /\ lastHashOp.op = "remove"
  /\ lastHashOp.arg \notin hashItems
  /\ \E k \in OverlappedCells(lastHashOp.arg, cellSize) : k \in DOMAIN cells
  /\ \E k \in OverlappedCells(lastHashOp.arg, cellSize) : k \notin DOMAIN cells
  /\ Cardinality(hashItems) >= 2

\* the spec's example: cellSize 100 and the one item {0, 0, 50, 50}
HashExample == cellSize = 100 /\ hashItems = {Item(1, 0, 0, 50, 50)}

\* C16: query(area) returns exactly the added items that share a cell with
\* area, each once, so every added item that overlaps area; in the example
\* query({40,40,20,20}) returns the item and query({200,200,10,10}) nothing.
C16_QueryExact ==
  lastHashOp.op = "query" =>
    LET area == lastHashOp.arg
        result == lastHashOp.result
    IN /\ NoDuplicates(result)
       /\ SeqRange(result) =
            {it \in hashItems : OverlappedCells(it, cellSize)
                                   \cap OverlappedCells(area, cellSize) # {}}
       /\ \A it \in hashItems : AabbOverlap(it, area) => it \in SeqRange(result)
       /\ (HashExample /\ area = Rect(40, 40, 20, 20))
            => result = << Item(1, 0, 0, 50, 50) >>
       /\ (HashExample /\ area = Rect(200, 200, 10, 10)) => result = << >>

\* a query over several cells that finds an item lying in several of them
C16_Witness ==
  /\ lastHashOp.op = "query"
  /\ Cardinality(OverlappedCells(lastHashOp.arg, cellSize)) >= 2
  /\ \E it \in SeqRange(lastHashOp.result) :
       /\ Cardinality(OverlappedCells(it, cellSize)
                        \cap OverlappedCells(lastHashOp.arg, cellSize)) >= 2
       /\ ~AabbOverlap(it, lastHashOp.arg)
  /\ \E it \in SeqRange(lastHashOp.result) : AabbOverlap(it, lastHashOp.arg)

\* ------------------------------------- properties, physics: identity

\* C17: ids come from one counter, strictly increase in creation order and are
\* never given twice: the counter never goes back, and every body created
\* gets the counter's value, which then goes up by one.
C17_IdsIncreaseNeverReused ==
  [][ /\ nextId' >= nextId
      /\ Len(staticBodies') > Len(staticBodies)
           => (staticBodies'[Len(staticBodies')].id = nextId /\ nextId' = nextId + 1)
      /\ Len(dynamicBodies') > Len(dynamicBodies)
           => (dynamicBodies'[Len(dynamicBodies')].id = nextId /\ nextId' = nextId + 1)
    ]_vars

\* C18: once removeDynamicBody(id) has removed a body, no dynamic body of the
\* world has that id and no later add returns it.
C18_RemovedStaysRemoved ==
  [][ /\ \A i \in 1..Len(dynamicBodies') : dynamicBodies'[i].id \notin removed'
      /\ created' > created => nextId \notin removed ]_vars

\* C19: step(dt) with dt <= 0 leaves the dynamic bodies, the static bodies and
\* the spatial hash as they are.
C19_NonPositiveDtChangesNothing ==
  [][ (lastOp'.op = "step" /\ lastOp'.dt <= 0)
        => UNCHANGED << dynamicBodies, staticBodies, cells, nextId >> ]_vars

\* step(dt <= 0) was called on a moving body next to geometry
C19_Witness ==
  /\ lastOp.op = "step" /\ lastOp.dt <= 0
  /\ Len(pre) = 1 /\ dynamicBodies = pre
  /\ pre[1].vx # 0 /\ pre[1].vy # 0 /\ gravityY # 0
  /\ staticBodies # << >>

\* ------------------------------------------- properties, input mapper

\* the last two poll() calls came one after the other with nothing in between
PolledTwiceInSuccession == polls = 2 /\ ~touchedBetweenPolls

\* C20: of two poll() calls in succession with no raw key event in between,
\* the second returns empty pressed and released sets and the held set of the
\* first.
C20_SecondPollHasNoEdges ==
  PolledTwiceInSuccession =>
    /\ snapshot.pressed = {} /\ snapshot.released = {}
    /\ snapshot.held = prevSnapshot.held

C20_Witness ==
  /\ PolledTwiceInSuccession
  /\ prevSnapshot.pressed # {} /\ prevSnapshot.released # {}
  /\ snapshot.held # {}

\* the action alphabet of the bindings
BoundActions == UNION {ActionsOf(code) : code \in Codes}

\* C21: while the mapper listens, a raw key-down for a code puts each action
\* bound to it in held and gives it a pressed edge exactly when it was not
\* held before; a raw key-up takes each bound action out of held and gives
\* it a released edge exactly when it was held; nothing else changes, so an
\* event for an unbound code changes no set.
C21_RawEventsSetEdges ==
  [][listening =>
       \A code \in Codes :
         /\ KeyDown(code) =>
              /\ \A a \in BoundActions :
                   /\ a \in held' <=> (a \in held \/ a \in ActionsOf(code))
                   /\ a \in pressed' <=>
                        (a \in pressed \/ (a \in ActionsOf(code) /\ a \notin held))
              /\ released' = released
              /\ ActionsOf(code) = {} => held' = held /\ pressed' = pressed
         /\ KeyUp(code) =>
              /\ \A a \in BoundActions :
                   /\ a \in held' <=> (a \in held /\ a \notin ActionsOf(code))
                   /\ a \in released' <=>
                        (a \in released \/ (a \in ActionsOf(code) /\ a \in held))
              /\ pressed' = pressed
              /\ ActionsOf(code) = {} => held' = held /\ released' = released
    ]_vars

\* a key-down repeated while held (no second edge after the poll), a key-up
\* of a held action and an unbound key down
C21_Witness ==
  /\ listening
  /\ polls > 0
  /\ "ArrowLeft" \in keysDown /\ "KeyQ" \in keysDown
  /\ held = {"move.left"}
  /\ pressed = {}
  /\ released = {"debug.toggleHitboxes"}

\* the actions with at least one bound code physically down
PhysicallyActive == UNION {ActionsOf(code) : code \in keysDown}

\* C22: while the mapper listens and every action with a code physically
\* down is held, the release of one of the keys that are down leaves every
\* action that still has a code down held (isHeld) and gives it no
\* released edge.
C22_HeldWhileAnyCodeDown ==
  [][(/\ listening
      /\ \A a \in PhysicallyActive : IsHeld(a)
      /\ \E code \in keysDown : KeyUp(code))
     => /\ \A a \in PhysicallyActive' : a \in held'
        /\ PhysicallyActive' \cap released' \subseteq released
    ]_vars

\* C23 as stated: the three sets of the snapshot returned by poll() are
\* pairwise disjoint.
C23_SnapshotDisjoint ==
  polls > 0 =>
    /\ snapshot.held \cap snapshot.pressed = {}
    /\ snapshot.held \cap snapshot.released = {}
    /\ snapshot.pressed \cap snapshot.released = {}

\* C23: in every snapshot returned by poll(), an action with a pressed
\* edge is held or has a released edge too, and an action with a released
\* edge and no pressed edge was held in the snapshot before.
C23_SnapshotEdgesAccounted ==
  polls > 0 =>
    /\ snapshot.pressed \subseteq snapshot.held \cup snapshot.released
    /\ snapshot.released \ snapshot.pressed \subseteq prevSnapshot.held

\* down, up and down again between two polls: one action in all three sets
C23_Witness ==
  /\ polls > 0
  /\ snapshot.held \cap snapshot.pressed \cap snapshot.released # {}
  /\ prevSnapshot.held # {}

\* C24: once dispose() has been called the listeners stay detached, the
\* three sets are and stay empty whatever raw key event or second
\* dispose() follows, isHeld is false for every action and poll() returns
\* three empty sets.
C24_DisposedStaysEmpty ==
  /\ [](~listening =>
          /\ held = {} /\ pressed = {} /\ released = {}
          /\ \A a \in BoundActions : ~IsHeld(a))
  /\ [][~listening =>
          /\ ~listening'
          /\ held' = held /\ pressed' = pressed /\ released' = released
          /\ Poll => snapshot' = NoSnapshot
       ]_vars

\* disposed with a bound key down, and polled since the last raw event and
\* the last dispose()
C24_Witness ==
  /\ ~listening
  /\ keysDown \cap {"ArrowLeft", "KeyA", "F1"} # {}
  /\ prevSnapshot.held # {}
  /\ polls > 0 /\ ~touchedSincePoll

\* the place of a stage in the order of the tick (0: not one of the four)
StageRank(stage) ==
  CASE stage = "input.poll" -> 1
    [] stage = "physics.step" -> 2
    [] stage = "sync" -> 3
    [] stage = "hud.publish" -> 4
    [] OTHER -> 0

C30_HudAtMostOncePerPeriod ==
  /\ lastGapMs # -1 => lastGapMs >= HudPeriodMs
  /\ publishedInRow < 2
  /\ (stages # << >> /\ stages[Len(stages)] = "hud.publish") =>
       hudUpdateAccumulator = 0

\* dynamicBodies.has(id)
HasDynamicBody(bodies, id) == \E i \in 1..Len(bodies) : bodies[i].id = id

\* what a call of removeDynamicBody(id) gives its caller: the function is
\* void and drops the result of Map.delete (line 158), whatever the id
RemoveDynamicBodyOutcome(bodies, id) == "undefined"

\* C28: an operation given a removed or unknown id reports not-found by an
\* exception or by a return value that differs from the one for a known
\* id; here for removeDynamicBody of the physics world.
C28_UnknownIdIsReported ==
  [][\A id \in 1..MaxCreated :
       (RemoveDynamicBody(id) /\ ~HasDynamicBody(dynamicBodies, id))
         => RemoveDynamicBodyOutcome(dynamicBodies, id)
              \in {"throws", "false", "not-found"}
    ]_vars

\* C29: when stepFn throws, update is left at once with the accumulator and
\* stepsLastFrame as they were before the failed step; until the next
\* invocation no step runs, stepsLastFrame counts the steps that returned
\* (one less than the calls made) and the accumulator still holds the time
\* of the failed step.
C29_ThrowLeavesUpdate ==
  /\ [][(pc = "inStep" /\ lastRun' = "threw")
          => /\ pc' = "idle"
             /\ accumulator' = accumulator
             /\ stepsLastFrame' = stepsLastFrame
       ]_vars
  /\ []((lastRun = "threw" /\ ~lastPaused)
          => /\ pc = "idle"
             /\ stepsLastFrame = callsThisFrame - 1
             /\ LoopCond(accumulator, fixedDt))

\* stepFn threw in the second or a later step of an invocation that had
\* more steps to run
C29_Witness ==
  /\ lastRun = "threw" /\ ~lastPaused
  /\ stepsLastFrame >= 1
  /\ accumulator >= 2 * fixedDt

\* C27: a scheduler started with hz <= 0 runs with a fixedDt that is
\* positive and finite (hz is clamped to 1), and for every hz the step loop
\* of an invocation comes to an end.
C27_HzClampedLoopEnds ==
  /\ [](hz <= 0 => (fixedDt > 0 /\ fixedDt < Infinity))
  /\ (pc = "loop" ~> pc = "idle")

\* C26: no world with a cellSize <= 0 is handed out whose addStaticBody or
\* step does not return, or whose step leaves a moved body inside a static
\* body.
C26_NonPositiveCellSizeRejected ==
  cellSize <= 0 =>
    /\ Returned
    /\ (Stepped /\ (Integrated(pre[1], lastOp.dt).vx # 0
                     \/ Integrated(pre[1], lastOp.dt).vy # 0))
         => \A st \in StaticSet : ~AabbOverlap(dynamicBodies[1], st)

\* C34: the static bodies reachable through the spatial hash are exactly the
\* static bodies of the world (getStaticBodies), in every state in which the
\* operations called so far have returned.
C34_HashHoldsTheStatics ==
  Returned => HashStatics = StaticSet

\* the body overlaps no static body of the world
OverlapsNone(body) == \A s \in StaticSet : ~AabbOverlap(body, s)

\* C35: a body that overlaps no static body of the world before step(dt)
\* overlaps none after it, whatever velocity it was given before the step.
C35_StepKeepsBodiesApart ==
  (Stepped /\ OverlapsNone(pre[1])) => OverlapsNone(dynamicBodies[1])

\* a body clear of every static was displaced into one and ends clear of all
C35_Witness ==
  /\ Stepped /\ OverlapsNone(pre[1])
  /\ ~OverlapsNone(Moved(Moved(Integrated(pre[1], lastOp.dt),
                               StepDx(pre[1], lastOp.dt), "x"),
                         StepDy(pre[1], lastOp.dt), "y"))
  /\ OverlapsNone(dynamicBodies[1])

\* a level is rebuilt after clear(): the geometry of the level before it
\* covered the place where the body of the new level is put
ReloadStaticInits == {Rect(5, 0, 20, 10), Rect(-15, 0, 10, 10)}

ReloadNext ==
  \/ \E init \in ReloadStaticInits : AddStaticBody(init)
  \/ \E init \in DynamicInits : AddDynamicBody(init)
  \/ \E id \in 1..MaxCreated : RemoveDynamicBody(id)
  \/ Clear
  \/ \E vx \in VxValues, vy \in VyValues : SetVelocity(vx, vy)
  \/ \E dt \in StepDts : Step(dt)

ReloadSpecInit == PhysSpecInit

ReloadSpec == ReloadSpecInit /\ [][ReloadNext]_vars

\* c lies between a and b, ends included
Between(a, c, b) == (a <= c /\ c <= b) \/ (b <= c /\ c <= a)

\* C36: for a body that overlaps no static body before the step, on each axis
\* the coordinate after the step lies between the coordinate before it and
\* that coordinate plus the intended displacement, ends included.
C36_NoOvershootNoReverse ==
  (Stepped /\ OverlapsNone(pre[1])) =>
    /\ Between(pre[1].x, dynamicBodies[1].x,
               FAdd(pre[1].x, StepDx(pre[1], lastOp.dt)))
    /\ Between(pre[1].y, dynamicBodies[1].y,
               FAdd(pre[1].y, StepDy(pre[1], lastOp.dt)))

\* two worlds with the same statics
PairSpecInit ==
  /\ PhysInit /\ TwinIdle
  /\ SchedIdle /\ ResIdle /\ HashIdle /\ InputIdle /\ SceneIdle
  /\ EcsIdle /\ RegIdle

PairSpec == PairSpecInit /\ [][PairNext]_vars

\* the ECS World on its own
EcsSpecInit ==
  /\ EcsInit
  /\ SchedIdle /\ PhysIdle /\ ResIdle /\ HashIdle /\ InputIdle /\ SceneIdle
  /\ TwinIdle /\ RegIdle

EcsSpec == EcsSpecInit /\ [][EcsNext]_vars

\* the EntityRegistry on its own
RegSpecInit ==
  /\ RegInit
  /\ SchedIdle /\ PhysIdle /\ ResIdle /\ HashIdle /\ InputIdle /\ SceneIdle
  /\ TwinIdle /\ EcsIdle

RegSpec == RegSpecInit /\ [][RegNext]_vars

\* C37: two worlds that have the same statics and agree on one dynamic body
\* agree on that body after every step, whatever other dynamic body one of
\* them has, and step changes no static body and no bucket of the spatial
\* hash.
C37_BodiesDoNotInteract ==
  /\ [](twin # << >> => dynamicBodies[1] = twin[1])
  /\ [][(\E dt \in StepDts : PairStep(dt))
          => staticBodies' = staticBodies /\ cells' = cells]_vars

\* after a step the shared body has moved, is the same in the two worlds, and
\* lies inside the other dynamic body of the first world
C37_Witness ==
  /\ lastOp.op = "step" /\ lastOp.dt > 0
  /\ Len(dynamicBodies) = 2 /\ Len(pre) = 2
  /\ dynamicBodies[1] = twin[1]
  /\ dynamicBodies[1].x # pre[1].x
  /\ AabbOverlap(dynamicBodies[1], pre[2])
  /\ AabbOverlap(dynamicBodies[1], dynamicBodies[2])
  /\ staticBodies # << >>

\* C31: createEntity never returns an id that an earlier createEntity call
\* of the same World returned, whatever destroyEntity and clear calls lie in
\* between.
C31_IdsNeverReturnedTwice ==
  [][CreateEntity => nextEntity \notin issued]_vars

\* the alive entities that have every component of the list
Matching(components) ==
  {e \in alive : \A i \in 1..Len(components) :
     /\ components[i] \in DOMAIN stores
     /\ StoreHas(stores[components[i]], e)}

\* C32: query with an empty list throws; with a list that is not empty it
\* returns the alive entities that have every listed component, each once,
\* with its values of the listed components in the order of the list,
\* whichever store is the smallest.
C32_QueryYieldsTheMatches ==
  ecsLast.op = "query" =>
    IF ecsLast.components = << >> THEN ecsLast.threw
    ELSE LET r == ecsLast.result
             cs == ecsLast.components
         IN /\ ~ecsLast.threw
            /\ {r[k].entity : k \in 1..Len(r)} = Matching(cs)
            /\ Len(r) = Cardinality(Matching(cs))
            /\ \A k \in 1..Len(r) :
                 /\ Len(r[k].components) = Len(cs)
                 /\ \A i \in 1..Len(cs) :
                      /\ r[k].components[i] = StoreGet(stores[cs[i]], r[k].entity)
                      /\ r[k].components[i].of = cs[i]

\* a query of two different components whose second store is the smaller
\* one, that returns an entity and leaves one out
C32_Witness ==
  /\ ecsLast.op = "query" /\ Len(ecsLast.components) = 2
  /\ ecsLast.components[1] # ecsLast.components[2]
  /\ Len(stores[ecsLast.components[2]]) < Len(stores[ecsLast.components[1]])
  /\ Len(ecsLast.result) = 1
  /\ Cardinality(alive) = 2

\* C33: every entity that has an entry in a component store is alive;
\* destroyEntity leaves no entry of the entity in any store; addComponent on
\* an entity that is not alive throws and changes nothing.
C33_StoresHoldOnlyAlive ==
  /\ [](\A d \in DOMAIN stores : StoreKeys(stores[d]) \subseteq alive)
  /\ [](ecsLast.op = "destroyEntity"
          => \A d \in DOMAIN stores : ecsLast.entity \notin StoreKeys(stores[d]))
  /\ [][(ecsLast'.op = "addComponent" /\ ecsLast'.entity \notin alive)
          => /\ ecsLast'.threw
             /\ UNCHANGED << nextEntity, alive, stores >>
       ]_vars

\* addComponent was called for an entity that had been created and
\* destroyed, while another entity has components
C33_Witness ==
  /\ ecsLast.op = "addComponent" /\ ecsLast.threw
  /\ ecsLast.entity \in issued
  /\ \E d \in DOMAIN stores : stores[d] # << >>

RECURSIVE SumOfCounts(_)
SumOfCounts(kinds) ==
  IF kinds = {} THEN 0
  ELSE LET k == CHOOSE x \in kinds : TRUE
       IN CountOf(k) + SumOfCounts(kinds \ {k})

\* C40: an id is in the set of a kind exactly if a record with that id and
\* kind is stored; no kind has an empty set; count() is the sum of count(k)
\* over the kinds; remove of an id that is not stored returns false and
\* changes nothing.
C40_IndexAgreesWithRecords ==
  /\ [](/\ \A k \in Kinds, id \in RegIds :
             (k \in DOMAIN byKind /\ id \in byKind[k])
               <=> (id \in DOMAIN byId /\ byId[id].kind = k /\ byId[id].id = id)
        /\ \A k \in DOMAIN byKind : byKind[k] # {}
        /\ CountAll = SumOfCounts(Kinds))
  /\ [][\A id \in RegIds :
          (RegRemove(id) /\ id \notin DOMAIN byId)
            => /\ regLast'.result = FALSE
               /\ UNCHANGED << regNextId, byId, byKind >>
       ]_vars

\* remove has taken the last record of a kind while a record of the other
\* kind is stored
C40_Witness ==
  /\ regLast.op = "remove" /\ regLast.result
  /\ byId # << >>
  /\ DOMAIN byKind # Kinds

\* C39: in every state of the scheduler, also after invocations in which
\* stepFn threw, the accumulator is below maxAccumulatedTime + fixedDelta.
C39_AccumulatorBelowClampPlusStep ==
  accumulator < maxAccumulated + fixedDt

\* C38: while the mapper listens, the pressed accumulator holds exactly the
\* actions that went from not held to held since the last poll and the
\* released accumulator those that went from held to not held; poll returns
\* the two accumulators and empties them.  So a transition is reported by
\* the first poll after it, however late that poll comes, and by no later
\* poll unless the action makes the transition again.
C38_EdgeReportedByFirstPollOnly ==
  [][(listening /\ listening') =>
       IF Poll
       THEN /\ snapshot'.pressed = pressed /\ snapshot'.released = released
            /\ pressed' = {} /\ released' = {}
       ELSE /\ pressed' = pressed \cup (held' \ held)
            /\ released' = released \cup (held \ held')
    ]_vars

\* two polls with no key event in between: the first reported a pressed edge
\* of an action that is still held and a released edge, the second reports
\* neither
C38_Witness ==
  /\ listening /\ polls = 2 /\ ~touchedBetweenPolls
  /\ prevSnapshot.pressed \cap snapshot.held # {}
  /\ prevSnapshot.released # {}
  /\ snapshot.pressed = {} /\ snapshot.released = {}
====
